---- MODULE Spec2Model ----
(***************************************************************************)
(* Model of the concurrent processing engine of video-scanner:             *)
(*   - TaskQueue        (src/src/core/organizer.js, class TaskQueue)       *)
(*   - retryOperation   (src/src/utils/retry.js)                           *)
(* Each component has its own specification over its own variables.        *)
(***************************************************************************)
EXTENDS Integers, Sequences, FiniteSets, TLC

(***************************************************************************)
(* Bounds of the model.                                                    *)
(***************************************************************************)
MaxTasks == 3        \* number of add() calls in one behaviour
MaxPriority == 1     \* priorities are drawn from 0..MaxPriority
MaxConcurrency == 2  \* concurrency limits are drawn from 1..MaxConcurrency (positive)
MaxImmediates == 1   \* setConcurrency is not called with more than this many dispatches scheduled
NumCalls == 2        \* concurrent calls of one retryable function
MaxRetriesArg == 4   \* maxRetries is drawn from 0..MaxRetriesArg
MaxBaseDelay == 2    \* baseDelay is drawn from -1..MaxBaseDelay
MaxMaxDelay == 4     \* maxDelay is drawn from -1..MaxMaxDelay
NumKeys == 3         \* cache keys
NumSlots == 2        \* concurrent get() and set() calls of the Cache
MaxMemoryItems == 2  \* cache.maxMemoryItems is drawn from 0..MaxMemoryItems
MaxTtl == 1          \* max-ages are drawn from 0..MaxTtl, cache.maxAge from 1..MaxTtl
MaxNow == 2          \* the clock of the Cache runs from 0 to MaxNow
NumMoves == 2        \* concurrent moveFile calls into one directory

\* the defaults of the configuration
DefaultMaxMemoryItems == 1000
DefaultMaxAge == 86400000

\* maxRetries of the retryable steps of the pipeline
PipelineMaxRetries == 3

VARIABLES
  tq,    \* the TaskQueue object, its entries, their futures and timers
  rt,    \* retry.js: the abort state, the cleanup registry, the calls in flight
  ch,    \* the Cache object, the files of its directory, its calls in flight
  pv,    \* one processVideo call and the directories it works on
  md,    \* the metadata stage of the processVideo runs on one identifier
  bt,    \* one processVideos call: the results of its items
  mv     \* the moveFile calls into one directory, and the directory

Ids == 1..MaxTasks
Priorities == 0..MaxPriority

Range(s) == {s[k] : k \in 1..Len(s)}

Min(a, b) == IF a <= b THEN a ELSE b

\* the value of an optional that is present
The(S) == CHOOSE x \in S : TRUE

(***************************************************************************)
(* A queueItem as add() creates it (before it is given a timer).           *)
(* timer: "none" (timeout = 0), "armed", "cleared" (clearTimeout at        *)
(* admission) or "fired" (the timeout callback ran).                       *)
(***************************************************************************)
NoItem ==
  [priority |-> 0, timestamp |-> 0, cancelled |-> FALSE, started |-> FALSE,
   timer |-> "none"]

NewItem(priority, timestamp, hasTimeout) ==
  [priority |-> priority, timestamp |-> timestamp, cancelled |-> FALSE,
   started |-> FALSE, timer |-> IF hasTimeout THEN "armed" ELSE "none"]

(***************************************************************************)
(* The state after `new TaskQueue(concurrency)`.                           *)
(* future[i]: "none" (add not called yet), "pending", "resolved",          *)
(*   "rej_refused" (add on a stopped queue), "rej_timeout", "rej_cancel",  *)
(*   "rej_stop", "rej_task" (the task's own error).                        *)
(* task[i]: "idle", "running", "done", "failed".                           *)
(* immediates: number of scheduled setImmediate(() => this.process()).     *)
(* batch/aggregate/aggError/paLeft: the processAll call in progress and    *)
(*   the Promise.all over the futures of its entries.                      *)
(* admitted: the entry the current step's process() call admitted (what    *)
(*   its 'taskStart' event announces), NoAdmission when it admitted none.  *)
(* cancelCount: {n} when the current step is a cancel() that returned n,   *)
(*   {} otherwise.                                                         *)
(***************************************************************************)
NoAdmission == [id |-> 0, priority |-> 0]

NewTaskQueue(c) ==
  [concurrency |-> c, running |-> 0, queue |-> <<>>,
   isStopped |-> FALSE, completedCount |-> 0,
   items |-> [i \in Ids |-> NoItem],
   future |-> [i \in Ids |-> "none"],
   task |-> [i \in Ids |-> "idle"],
   nextId |-> 1, now |-> 0, immediates |-> 0,
   batch |-> {}, paLeft |-> 0, paPriority |-> 0,
   aggregate |-> "none", aggError |-> 0,
   admitted |-> NoAdmission, cancelCount |-> {}]

(***************************************************************************)
(* Promise settlement.  Settling a promise that is already settled is a    *)
(* no-op.  aggError remembers the first rejected future of the processAll  *)
(* batch: the rejection Promise.all propagates.                            *)
(***************************************************************************)
Reject(s, i, reason) ==
  IF s.future[i] # "pending" THEN s
  ELSE [s EXCEPT !.future[i] = reason,
                 !.aggError = IF i \in s.batch /\ @ = 0 THEN i ELSE @]

Resolve(s, i) ==
  IF s.future[i] # "pending" THEN s ELSE [s EXCEPT !.future[i] = "resolved"]

RECURSIVE RejectAll(_, _, _)
RejectAll(s, q, reason) ==
  IF q = <<>> THEN s
  ELSE RejectAll(Reject(s, Head(q), reason), Tail(q), reason)

\* mutant of PromiseAll: Promise.allSettled, then the first rejection
PromiseAllSettled(s) ==
  IF s.paLeft > 0 \/ s.batch = {} \/ s.aggregate \in {"fulfilled", "rejected"}
  THEN s
  ELSE IF \E i \in s.batch : s.future[i] = "pending"
       THEN [s EXCEPT !.aggregate = "pending"]
       ELSE IF s.aggError # 0 THEN [s EXCEPT !.aggregate = "rejected"]
            ELSE [s EXCEPT !.aggregate = "fulfilled"]

\* Promise.all(promises): exists once the map over the tasks has returned;
\* rejects on the first rejection, fulfils when every future has fulfilled.
PromiseAll(s) ==
  IF s.paLeft > 0 \/ s.batch = {} \/ s.aggregate \in {"fulfilled", "rejected"}
  THEN s
  ELSE IF s.aggError # 0 THEN [s EXCEPT !.aggregate = "rejected"]
  ELSE IF \A i \in s.batch : s.future[i] = "resolved"
       THEN [s EXCEPT !.aggregate = "fulfilled"]
       ELSE [s EXCEPT !.aggregate = "pending"]

(***************************************************************************)
(* A queueItem object is reachable from the queue array, from the frame of *)
(* the process() call that runs its task, and from the closure of its      *)
(* armed timer.  Once none of them holds it the object is garbage: its     *)
(* fields can no longer be read, and the model forgets them.               *)
(***************************************************************************)
Reachable(s, i) ==
  \/ \E k \in 1..Len(s.queue) : s.queue[k] = i
  \/ s.task[i] = "running"
  \/ s.items[i].timer = "armed"

Collect(s) ==
  [s EXCEPT !.items = [i \in DOMAIN @ |->
      IF Reachable(s, i) THEN @[i]
      ELSE NoItem]]

\* what every macrotask ends with: the promise reactions run, garbage goes
Finish(s) == Collect(PromiseAll(s))

(***************************************************************************)
(* this.queue.sort((a, b) => b.priority - a.priority ||                    *)
(*                           a.timestamp - b.timestamp)                    *)
(* Array.prototype.sort is stable: entries that compare equal keep their   *)
(* relative order.                                                         *)
(***************************************************************************)
\* mutant of Compare: the priorities subtracted the other way round
CompareAscending(a, b) ==
  IF a.priority - b.priority # 0 THEN a.priority - b.priority
  ELSE a.timestamp - b.timestamp

Compare(a, b) ==
  IF b.priority - a.priority # 0 THEN b.priority - a.priority
  ELSE a.timestamp - b.timestamp

RECURSIVE InsertSorted(_, _, _)
InsertSorted(items, sorted, x) ==
  IF sorted = <<>> THEN <<x>>
  ELSE IF Compare(items[Head(sorted)], items[x]) > 0
       THEN <<x>> \o sorted
       ELSE <<Head(sorted)>> \o InsertSorted(items, Tail(sorted), x)

RECURSIVE SortFrom(_, _, _)
SortFrom(items, sorted, rest) ==
  IF rest = <<>> THEN sorted
  ELSE SortFrom(items, InsertSorted(items, sorted, Head(rest)), Tail(rest))

SortQueue(items, q) == SortFrom(items, <<>>, q)

(***************************************************************************)
(* The continuation of process() after `await item.task()`: the try/catch/ *)
(* finally.  (The results and errors arrays, which process() appends to    *)
(* and trims and clear() empties, are a log no code path reads back; they  *)
(* are left out of the state.)                                             *)
(***************************************************************************)
\* mutant of Settled: a failure rejects and drops what is still queued
SettledFailFast(s, i, ok) ==
  LET s1 == IF ok
            THEN [Resolve([s EXCEPT !.completedCount = @ + 1], i)
                    EXCEPT !.task[i] = "done"]
            ELSE [RejectAll(Reject(s, i, "rej_task"), s.queue, "rej_cancel")
                    EXCEPT !.task[i] = "failed", !.queue = <<>>]
  IN [s1 EXCEPT !.running = @ - 1, !.immediates = @ + 1]

Settled(s, i, ok) ==
  LET s1 == IF ok
            THEN [Resolve([s EXCEPT !.completedCount = @ + 1], i)
                    EXCEPT !.task[i] = "done"]
            ELSE [Reject(s, i, "rej_task") EXCEPT !.task[i] = "failed"]
  IN [s1 EXCEPT !.running = @ - 1, !.immediates = @ + 1]

(***************************************************************************)
(* process(): the guard, the shift, the skip of a cancelled entry, the     *)
(* admission and the call of item.task().  syncThrow: the call throws      *)
(* before it returns a promise, and the catch/finally run in the same      *)
(* step.                                                                   *)
(***************************************************************************)
\* mutant of ProcessGuard: off by one, admits when running = concurrency
ProcessGuardOffByOne(s) ==
  ~(s.running > s.concurrency \/ Len(s.queue) = 0 \/ s.isStopped)

ProcessGuard(s) ==
  ~(s.running >= s.concurrency \/ Len(s.queue) = 0 \/ s.isStopped)

Admit(s, i) ==
  [s EXCEPT !.running = @ + 1,
            !.admitted = [id |-> i, priority |-> s.items[i].priority],
            !.items[i].started = TRUE,
            !.items[i].timer = IF @ = "armed" THEN "cleared" ELSE @,
            !.task[i] = "running"]

\* mutant of Shift: the head is read (this.queue[0]) and stays queued
ShiftPeek(s) == s

\* this.queue.shift(): the head leaves the queue
Shift(s) == [s EXCEPT !.queue = Tail(@)]

\* mutant of Skipped: the cancelled flag is not looked at
SkippedNever(s, i) == FALSE

\* if (item.cancelled): the entry is dropped and the next dispatch scheduled
Skipped(s, i) == s.items[i].cancelled

Process(s, syncThrow) ==
  IF ~ProcessGuard(s) THEN s
  ELSE LET i == Head(s.queue)
           s1 == Shift(s)
       IN IF Skipped(s1, i)
          THEN [s1 EXCEPT !.immediates = @ + 1]
          ELSE IF syncThrow THEN Settled(Admit(s1, i), i, FALSE)
               ELSE Admit(s1, i)

(***************************************************************************)
(* add(task, priority, timeout)                                            *)
(***************************************************************************)
Enqueue(s, i, priority, hasTimeout) ==
  LET items == [s.items EXCEPT ![i] = NewItem(priority, s.now, hasTimeout)]
  IN [s EXCEPT !.items = items,
               !.queue = SortQueue(items, Append(s.queue, i))]

\* mutant of AddOp: no isStopped check
AddOpUnchecked(s, priority, hasTimeout, syncThrow) ==
  LET i == s.nextId
      s0 == [s EXCEPT !.nextId = i + 1, !.future[i] = "pending"]
  IN Process(Enqueue(s0, i, priority, hasTimeout), syncThrow)

AddOp(s, priority, hasTimeout, syncThrow) ==
  LET i == s.nextId
      s0 == [s EXCEPT !.nextId = i + 1, !.future[i] = "pending"]
  IN IF s.isStopped THEN Reject(s0, i, "rej_refused")
     ELSE Process(Enqueue(s0, i, priority, hasTimeout), syncThrow)

\* the setTimeout callback of add()
TimeoutOp(s, i) ==
  LET s1 == [s EXCEPT !.items[i].timer = "fired"]
  IN IF ~s.items[i].started
     THEN Reject([s1 EXCEPT !.items[i].cancelled = TRUE], i, "rej_timeout")
     ELSE s1

(***************************************************************************)
(* cancel(predicate): matching is the set of entries whose task the        *)
(* predicate accepts.                                                      *)
(***************************************************************************)
RECURSIVE CancelEach(_, _, _)
CancelEach(s, q, matching) ==
  IF q = <<>> THEN s
  ELSE LET i == Head(q)
           s1 == IF i \in matching
                 THEN Reject([s EXCEPT !.items[i].cancelled = TRUE,
                                       !.cancelCount = {The(@) + 1}],
                             i, "rej_cancel")
                 ELSE s
       IN CancelEach(s1, Tail(q), matching)

CancelOp(s, matching) ==
  LET s1 == CancelEach([s EXCEPT !.cancelCount = {0}], s.queue, matching)
  IN [s1 EXCEPT !.queue = SelectSeq(@, LAMBDA i : ~s1.items[i].cancelled)]

\* mutant of StopOp: the pending entries are rejected and stay queued
StopOpKeepsQueue(s) ==
  RejectAll([s EXCEPT !.isStopped = TRUE], s.queue, "rej_stop")

StopOp(s) ==
  [RejectAll([s EXCEPT !.isStopped = TRUE], s.queue, "rej_stop")
     EXCEPT !.queue = <<>>]

ResumeOp(s) == [s EXCEPT !.isStopped = FALSE]

ClearOp(s) == [s EXCEPT !.queue = <<>>]

SetConcurrencyOp(s, n) ==
  [s EXCEPT !.concurrency = n, !.immediates = @ + 1]

(***************************************************************************)
(* Actions of the TaskQueue.  While processAll maps over its tasks         *)
(* (paLeft > 0) nothing else runs: the map is synchronous.                 *)
(***************************************************************************)
Idle == tq.paLeft = 0

\* the state a step starts from: no admission announced yet
Begin == [tq EXCEPT !.admitted = NoAdmission, !.cancelCount = {}]

Add ==
  /\ Idle
  /\ tq.nextId <= MaxTasks
  /\ \E p \in Priorities, hasTimeout \in BOOLEAN, syncThrow \in BOOLEAN :
       tq' = Finish(AddOp(Begin, p, hasTimeout, syncThrow))
  /\ UNCHANGED <<rt, ch, pv, md, bt, mv>>

\* processAll(tasks, priority): the call; n is tasks.length
ProcessAllCall ==
  /\ Idle
  /\ tq.batch = {}
  /\ tq.nextId <= MaxTasks
  /\ \E n \in 1..(MaxTasks + 1 - tq.nextId), p \in Priorities :
       tq' = [Begin EXCEPT !.paLeft = n, !.paPriority = p]
  /\ UNCHANGED <<rt, ch, pv, md, bt, mv>>

\* one this.add(task, priority) of the map; after the last one, Promise.all
ProcessAllAdd ==
  /\ tq.paLeft > 0
  /\ \E syncThrow \in BOOLEAN :
       LET s0 == [Begin EXCEPT !.batch = @ \cup {tq.nextId}, !.paLeft = @ - 1,
                             !.paPriority = IF tq.paLeft = 1 THEN 0 ELSE @]
       IN tq' = Finish(AddOp(s0, tq.paPriority, FALSE, syncThrow))
  /\ UNCHANGED <<rt, ch, pv, md, bt, mv>>

\* a scheduled setImmediate(() => this.process()) runs
Dispatch ==
  /\ Idle
  /\ tq.immediates > 0
  /\ \E syncThrow \in BOOLEAN :
       tq' = Finish(Process([Begin EXCEPT !.immediates = @ - 1], syncThrow))
  /\ UNCHANGED <<rt, ch, pv, md, bt, mv>>

\* the promise returned by item.task() settles
TaskSettle ==
  /\ Idle
  /\ \E i \in Ids, ok \in BOOLEAN :
       /\ tq.task[i] = "running"
       /\ tq' = Finish(Settled(Begin, i, ok))
  /\ UNCHANGED <<rt, ch, pv, md, bt, mv>>

Timeout ==
  /\ Idle
  /\ \E i \in Ids :
       /\ tq.items[i].timer = "armed"
       /\ tq' = Finish(TimeoutOp(Begin, i))
  /\ UNCHANGED <<rt, ch, pv, md, bt, mv>>

Cancel ==
  /\ Idle
  /\ \E matching \in SUBSET Range(tq.queue) :
       tq' = Finish(CancelOp(Begin, matching))
  /\ UNCHANGED <<rt, ch, pv, md, bt, mv>>

Stop ==
  /\ Idle
  /\ tq' = Finish(StopOp(Begin))
  /\ UNCHANGED <<rt, ch, pv, md, bt, mv>>

Resume ==
  /\ Idle
  /\ tq' = ResumeOp(Begin)
  /\ UNCHANGED <<rt, ch, pv, md, bt, mv>>

Clear ==
  /\ Idle
  /\ tq' = Finish(ClearOp(Begin))
  /\ UNCHANGED <<rt, ch, pv, md, bt, mv>>

SetConcurrency ==
  /\ Idle
  /\ tq.immediates < MaxImmediates
  /\ \E n \in 1..MaxConcurrency : tq' = SetConcurrencyOp(Begin, n)
  /\ UNCHANGED <<rt, ch, pv, md, bt, mv>>

\* setConcurrency with a limit of up to one slot per entry
SetConcurrencyWide ==
  /\ Idle
  /\ tq.immediates < MaxImmediates
  /\ \E n \in 1..MaxTasks : tq' = SetConcurrencyOp(Begin, n)
  /\ UNCHANGED <<rt, ch, pv, md, bt, mv>>

\* Date.now() advances.  Only add() reads the clock, and only the order of
\* the timestamps matters, so the clock is let run one tick ahead of the
\* number of add() calls: every pattern of equal and later timestamps occurs.
Tick ==
  /\ tq.now < tq.nextId - 1
  /\ tq.nextId <= MaxTasks
  /\ tq' = [Begin EXCEPT !.now = @ + 1]
  /\ UNCHANGED <<rt, ch, pv, md, bt, mv>>

(***************************************************************************)
(* retry.js.  One retryable function (createRetryableFunction fixes its    *)
(* options) is called NumCalls times; the calls run concurrently.          *)
(*                                                                         *)
(* A call's pc: "idle" (not called), "attempt" (awaiting operation()),     *)
(* "sleep" (awaiting the backoff promise), "settled" (returned or thrown). *)
(* outcome.kind: "value", "invalid" (validation error), "interrupted",     *)
(* "exhausted" (the enhanced error, with originalError and attempts).      *)
(* The error of the n-th invocation of the operation is named n.           *)
(* invocations and slept record what the call did: how often operation()   *)
(* was invoked and the delays given to setTimeout.                         *)
(* A cleanup hook (cleanupTimer) is named <<call, attempt>>; armed is the  *)
(* set of hooks whose timer is set and has neither fired nor been cleared. *)
(* Every hook is a closure of its own, and the code only asks the registry *)
(* array for membership (indexOf, splice) or empties it (pop until empty): *)
(* cleanupFunctions is kept as the set of the hooks the array holds.       *)
(***************************************************************************)
Calls == 1..NumCalls

DefaultOptions == [maxRetries |-> 3, baseDelay |-> 1000, maxDelay |-> 10000]

Options ==
  [maxRetries : 0..MaxRetriesArg, baseDelay : -1..MaxBaseDelay,
   maxDelay : -1..MaxMaxDelay]

NoOutcome == [kind |-> "none", originalError |-> 0, attempts |-> 0]

NoCall ==
  [pc |-> "idle", attempt |-> 0, lastError |-> 0, local |-> <<>>,
   invocations |-> 0, slept |-> <<>>, outcome |-> NoOutcome]

\* the hooks that can exist: one per call and round of the loop
Hooks == Calls \X (0..MaxRetriesArg)

\* ran[h]: how many times the hook h has been invoked
NewRetry(options) ==
  [options |-> options, isAborting |-> FALSE, exited |-> FALSE,
   cleanupFunctions |-> {}, armed |-> {}, ran |-> [h \in Hooks |-> 0],
   call |-> [c \in Calls |-> NoCall]]

\* each hook of `hooks` is invoked once: `cleanup()`
RunEach(ran, hooks) ==
  [h \in Hooks |-> IF h \in hooks THEN ran[h] + 1 ELSE ran[h]]

\* mutant of ValidOptions: the delays are not validated
ValidOptionsNoDelayCheck(o) == ~(o.maxRetries < 1)

\* maxRetries < 1, baseDelay < 0 || maxDelay < 0
ValidOptions(o) == ~(o.maxRetries < 1) /\ ~(o.baseDelay < 0 \/ o.maxDelay < 0)

\* mutant of Delay: linear instead of exponential backoff
DelayLinear(o, attempt) == Min(o.baseDelay * (attempt + 1), o.maxDelay)

\* Math.min(baseDelay * Math.pow(2, attempt), maxDelay)
Delay(o, attempt) == Min(o.baseDelay * 2^attempt, o.maxDelay)

\* mutant of RemoveFirst: the hook is looked up and left in the registry
RemoveFirstLeaves(registry, h) == registry

\* cleanupFunctions.indexOf(cleanup), then splice(index, 1)
RemoveFirst(registry, h) == registry \ {h}

RECURSIVE RemoveAll(_, _)
RemoveAll(registry, hooks) ==
  IF hooks = <<>> THEN registry
  ELSE RemoveAll(RemoveFirst(registry, Head(hooks)), Tail(hooks))

\* the error thrown after the loop
Exhausted(r, c) ==
  [kind |-> "exhausted", originalError |-> r.call[c].lastError,
   attempts |-> r.options.maxRetries]

Interrupted == [NoOutcome EXCEPT !.kind = "interrupted"]

(***************************************************************************)
(* The finally block, and the call settling with `outcome`: the local      *)
(* hooks leave the registry and each is run (clearTimeout).  The locals of *)
(* the call are gone with its frame.                                       *)
(***************************************************************************)
Finally(r, c, outcome) ==
  LET local == r.call[c].local
  IN [r EXCEPT !.cleanupFunctions = RemoveAll(@, local),
               !.armed = @ \ Range(local),
               !.ran = RunEach(@, Range(local)),
               !.call[c].pc = "settled",
               !.call[c].outcome = outcome,
               !.call[c].attempt = 0,
               !.call[c].lastError = 0,
               !.call[c].local = <<>>]

\* mutant of LoopCondition: one round too many
LoopConditionInclusive(r, c) == r.call[c].attempt <= r.options.maxRetries

\* the loop condition `attempt < maxRetries`
LoopCondition(r, c) == r.call[c].attempt < r.options.maxRetries

\* the for loop from its condition to `await operation()`
LoopHead(r, c) ==
  IF LoopCondition(r, c)
  THEN IF r.isAborting THEN Finally(r, c, Interrupted)
       ELSE [r EXCEPT !.call[c].pc = "attempt", !.call[c].invocations = @ + 1]
  ELSE Finally(r, c, Exhausted(r, c))

\* retryOperation(operation, options) up to its first await
RetryCallOp(r, c) ==
  IF ~ValidOptions(r.options)
  THEN [r EXCEPT !.call[c].pc = "settled",
                 !.call[c].outcome = [NoOutcome EXCEPT !.kind = "invalid"]]
  ELSE LoopHead(r, c)

\* `if (attempt < maxRetries - 1 && !isAborting)`: a backoff follows
SleepCondition(r, c) ==
  r.call[c].attempt < r.options.maxRetries - 1 /\ ~r.isAborting

\* the catch block: the backoff promise, or straight on to the next round
Caught(r, c) ==
  LET r1 == [r EXCEPT !.call[c].lastError = r.call[c].invocations]
      hook == <<c, r.call[c].attempt>>
  IN IF SleepCondition(r1, c)
     THEN [r1 EXCEPT !.call[c].pc = "sleep",
                     !.call[c].slept =
                        Append(@, Delay(r.options, r.call[c].attempt)),
                     !.call[c].local = Append(@, hook),
                     !.cleanupFunctions = @ \cup {hook},
                     !.armed = @ \cup {hook}]
     ELSE LoopHead([r1 EXCEPT !.call[c].attempt = @ + 1], c)

\* operation() settles
OperationSettledOp(r, c, ok) ==
  IF ok THEN Finally(r, c, [NoOutcome EXCEPT !.kind = "value"])
  ELSE Caught(r, c)

\* the timer of the backoff fires: resolve, attempt++, the next round
DelayElapsedOp(r, c) ==
  LET hook == <<c, r.call[c].attempt>>
  IN LoopHead([r EXCEPT !.armed = @ \ {hook}, !.call[c].attempt = @ + 1], c)

\* globalAbortHandler: the hooks are popped and run, then process.exit(1)
\* mutant of GlobalAbortOp: a signal flips the flag and the handler
\* returns without process.exit(1), so that a second signal lets the calls
\* go on
GlobalAbortOpFlip(r) ==
  [r EXCEPT !.isAborting = ~@,
            !.armed = @ \ r.cleanupFunctions,
            !.ran = RunEach(@, r.cleanupFunctions),
            !.cleanupFunctions = {}]

\* mutant of GlobalAbortOp: the handler returns without process.exit(1)
GlobalAbortOpNoExit(r) ==
  [r EXCEPT !.isAborting = TRUE,
            !.armed = @ \ r.cleanupFunctions,
            !.ran = RunEach(@, r.cleanupFunctions),
            !.cleanupFunctions = {}]

GlobalAbortOp(r) ==
  [r EXCEPT !.isAborting = TRUE,
            !.armed = @ \ r.cleanupFunctions,
            !.ran = RunEach(@, r.cleanupFunctions),
            !.cleanupFunctions = {},
            !.exited = TRUE]

(***************************************************************************)
(* Actions of retry.js.  Nothing runs once the process has exited.         *)
(***************************************************************************)
RetryCall ==
  /\ ~rt.exited
  /\ \E c \in Calls :
       /\ rt.call[c].pc = "idle"
       /\ \A b \in 1..(c - 1) : rt.call[b].pc # "idle"  \* calls are numbered in call order
       /\ rt' = RetryCallOp(rt, c)
  /\ UNCHANGED <<tq, ch, pv, md, bt, mv>>

OperationSettles ==
  /\ ~rt.exited
  /\ \E c \in Calls, ok \in BOOLEAN :
       /\ rt.call[c].pc = "attempt"
       /\ rt' = OperationSettledOp(rt, c, ok)
  /\ UNCHANGED <<tq, ch, pv, md, bt, mv>>

DelayElapses ==
  /\ ~rt.exited
  /\ \E c \in Calls :
       /\ rt.call[c].pc = "sleep"
       /\ <<c, rt.call[c].attempt>> \in rt.armed
       /\ rt' = DelayElapsedOp(rt, c)
  /\ UNCHANGED <<tq, ch, pv, md, bt, mv>>

\* SIGINT or SIGTERM arrives
GlobalAbort ==
  /\ ~rt.exited
  /\ rt' = GlobalAbortOp(rt)
  /\ UNCHANGED <<tq, ch, pv, md, bt, mv>>

(***************************************************************************)
(* Cache (services/cache.js): a Map with an access-order array in the      *)
(* process, and one file per key in the cache directory.  An optional      *)
(* max-age is a set: {} is `undefined`, {n} is the number n.  A value      *)
(* carries the time and the max-age of the set() that stored it, so that   *)
(* what get() returns can be traced to its set().  The content of a file   *)
(* is {} while it is empty or garbled and {data} when it is one whole      *)
(* entry.                                                                  *)
(***************************************************************************)
Keys == 1..NumKeys

Slots == 1..NumSlots

MaxAges == {{}} \cup {{n} : n \in 0..MaxTtl}

\* `!maxAge`
Falsy(maxAge) == maxAge = {} \/ maxAge = {0}

\* `a || b`
OrElse(a, b) == IF Falsy(a) THEN b ELSE a

NoReturn == [kind |-> "none", slot |-> 0, key |-> 0, value |-> {}, from |-> "none"]

IdleSlot ==
  [pc |-> "idle", key |-> 0, data |-> {}, maxAge |-> {}, mtime |-> 0,
   fd |-> "none"]

NewCache(callers, keys, maxMemoryItems, maxFileAge) ==
  [callers |-> callers, keys |-> keys, maxMemoryItems |-> maxMemoryItems, maxFileAge |-> maxFileAge, now |-> 0,
   memoryCache |-> [k \in Keys |-> {}], accessOrder |-> <<>>,
   final |-> [k \in Keys |-> {}], tmp |-> [k \in Keys |-> {}],
   slot |-> [s \in Slots |-> IdleSlot],
   ret |-> NoReturn, evicted |-> {}, inserted |-> {}, recency |-> <<>>]

\* memoryCache.size
Size(c) == Cardinality({k \in Keys : c.memoryCache[k] # {}})

\* mutant of IsExpired: expired already at age equal to the max-age
IsExpiredAtMaxAge(c, timestamp, maxAge) ==
  c.now - timestamp >= The(IF Falsy(maxAge) THEN {c.maxFileAge} ELSE maxAge)

\* isExpired(item, maxAge)
IsExpired(c, timestamp, maxAge) ==
  c.now - timestamp > The(IF Falsy(maxAge) THEN {c.maxFileAge} ELSE maxAge)

\* removeFromAccessOrder: indexOf, then splice(index, 1)
RECURSIVE RemoveFromAccessOrder(_, _)
RemoveFromAccessOrder(order, k) ==
  IF order = <<>> THEN <<>>
  ELSE IF Head(order) = k THEN Tail(order)
  ELSE <<Head(order)>> \o RemoveFromAccessOrder(Tail(order), k)

\* mutant of UpdateAccessOrder: a key already listed keeps its place
UpdateAccessOrderKeepPlace(order, k) ==
  IF k \in Range(order) THEN order ELSE Append(order, k)

\* updateAccessOrder
UpdateAccessOrder(order, k) == Append(RemoveFromAccessOrder(order, k), k)

\* mutant of MemoryFull: one entry too many before an eviction
MemoryFullOffByOne(c, k) ==
  Size(c) > c.maxMemoryItems /\ c.memoryCache[k] = {}

\* `memoryCache.size >= maxMemoryItems && !memoryCache.has(key)`
MemoryFull(c, k) == Size(c) >= c.maxMemoryItems /\ c.memoryCache[k] = {}

\* mutant of SetMemoryCache: the evicted key stays in the access order
SetMemoryCacheKeepsOrder(c, k, data, maxAge) ==
  LET evict == MemoryFull(c, k) /\ c.accessOrder # <<>>
      oldestKey == Head(c.accessOrder)
      c1 == IF evict
            THEN [c EXCEPT !.memoryCache[oldestKey] = {},
                           !.evicted = {oldestKey}]
            ELSE c
  IN [c1 EXCEPT !.memoryCache[k] =
                   {[data |-> data, timestamp |-> c.now, maxAge |-> maxAge]},
                !.accessOrder = UpdateAccessOrder(@, k)]

\* setMemoryCache(key, data, maxAge)
SetMemoryCache(c, k, data, maxAge) ==
  LET evict == MemoryFull(c, k) /\ c.accessOrder # <<>>
      oldestKey == Head(c.accessOrder)
      c1 == IF evict
            THEN [c EXCEPT !.accessOrder = Tail(@),
                           !.memoryCache[oldestKey] = {},
                           !.evicted = {oldestKey}]
            ELSE c
  IN [c1 EXCEPT !.memoryCache[k] =
                   {[data |-> data, timestamp |-> c.now, maxAge |-> maxAge]},
                !.accessOrder = UpdateAccessOrder(@, k)]

\* a call returns: its slot is free again
Return(c, s, kind, value, from) ==
  [c EXCEPT !.slot[s] = IdleSlot,
            !.ret = [kind |-> kind, slot |-> s, key |-> c.slot[s].key,
                     value |-> value, from |-> from]]

\* the file at the final path of k is removed or replaced: a descriptor
\* still open on it writes to a file no path leads to
Orphan(c, k) ==
  [c EXCEPT !.slot = [s \in Slots |->
      IF c.slot[s].key = k /\ c.slot[s].fd = "final"
      THEN [c.slot[s] EXCEPT !.fd = "gone"] ELSE c.slot[s]]]

\* fs.unlink(filePath)
Unlink(c, k) == [Orphan(c, k) EXCEPT !.final[k] = {}]

\* the keys held by the in-process tier
Held(c) == {k \in Keys : c.memoryCache[k] # {}}

\* k was touched: it is the most recently touched key now
Touch(c, k) ==
  [c EXCEPT !.recency = Append(SelectSeq(@, LAMBDA x : x # k), k)]

\* the last touch of a key matters only while the key is held
Forget(c) == [c EXCEPT !.recency = SelectSeq(@, LAMBDA x : x \in Held(c))]

\* what the previous step returned, evicted and inserted is not state
CacheBegin(c) == [c EXCEPT !.ret = NoReturn, !.evicted = {}, !.inserted = {}]

\* mutant of GetOp: the durable tier is consulted whatever the Map holds
GetOpFileFirst(c, s, k, maxAge) ==
  [c EXCEPT !.slot[s] =
     [IdleSlot EXCEPT !.pc = "stat", !.key = k, !.maxAge = maxAge]]

\* get(key, options) up to `await fs.stat(filePath)`
GetOp(c, s, k, maxAge) ==
  LET c0 == [c EXCEPT !.slot[s] =
               [IdleSlot EXCEPT !.pc = "stat", !.key = k, !.maxAge = maxAge]]
      item == The(c.memoryCache[k])
  IN IF c.memoryCache[k] = {} THEN c0
     ELSE IF ~IsExpired(c, item.timestamp, OrElse(item.maxAge, maxAge))
     THEN Return(Touch([c0 EXCEPT !.accessOrder = UpdateAccessOrder(@, k)], k),
                 s, "get", {item.data}, "memory")
     ELSE [c0 EXCEPT !.memoryCache[k] = {},
                     !.accessOrder = RemoveFromAccessOrder(@, k)]

\* fs.stat(filePath) settles: ENOENT is caught and get returns null
StatOp(c, s) ==
  LET k == c.slot[s].key
  IN IF c.final[k] = {} THEN Return(c, s, "get", {}, "none")
     ELSE [c EXCEPT !.slot[s].pc = "read",
                    !.slot[s].mtime = The(c.final[k]).mtime]

\* fs.readFile settles, JSON.parse, the expiry test, the promotion
ReadOp(c, s) ==
  LET k == c.slot[s].key
      data == The(The(c.final[k]).content)
      maxAge == OrElse(data.ttl, c.slot[s].maxAge)
  IN IF c.final[k] = {} \/ The(c.final[k]).content = {}
     THEN Return(c, s, "get", {}, "none")
     ELSE IF ~IsExpired(c, c.slot[s].mtime, maxAge)
     THEN Return(Touch([SetMemoryCache(c, k, data, maxAge)
                          EXCEPT !.inserted = {k}], k),
                 s, "get", {data}, "file")
     ELSE [c EXCEPT !.slot[s].pc = "unlink"]

\* `await fs.unlink(filePath).catch(() => {})`, then `return null`
UnlinkOp(c, s) == Return(Unlink(c, c.slot[s].key), s, "get", {}, "none")

\* set(key, data, options) up to `await fs.writeFile(tempPath, ...)`
SetOp(c, s, k, maxAge) ==
  LET data == [at |-> c.now, ttl |-> maxAge]
      c1 == Touch([SetMemoryCache(c, k, data, maxAge)
                     EXCEPT !.inserted = {k}], k)
  IN [c1 EXCEPT !.slot[s] =
        [IdleSlot EXCEPT !.pc = "open", !.key = k, !.data = {data}]]

\* writeFile opens tempPath with flag 'w': created, or truncated in place
OpenOp(c, s) ==
  [c EXCEPT !.tmp[c.slot[s].key] = {[content |-> {}, mtime |-> c.now]},
            !.slot[s].pc = "write",
            !.slot[s].fd = "tmp"]

\* the bytes written at offset 0 over what the file holds: over the bytes
\* of another entry they give that entry's tail after them when it is longer
Written(c, s, file, longer) ==
  [content |-> IF file.content \in {{}, c.slot[s].data} \/ ~longer
               THEN c.slot[s].data ELSE {},
   mtime |-> c.now]

\* writeFile writes and closes the file its descriptor is open on
WriteOp(c, s, longer) ==
  LET k == c.slot[s].key
      c1 == CASE c.slot[s].fd = "tmp" ->
                   [c EXCEPT !.tmp[k] = {Written(c, s, The(@), longer)}]
              [] c.slot[s].fd = "final" ->
                   [c EXCEPT !.final[k] = {Written(c, s, The(@), longer)}]
              [] OTHER -> c
  IN [c1 EXCEPT !.slot[s].pc = "rename", !.slot[s].fd = "none"]

\* fs.rename(tempPath, filePath); ENOENT is caught and logged
RenameOp(c, s) ==
  LET k == c.slot[s].key
      c1 == Orphan(c, k)
      c2 == [c1 EXCEPT !.final[k] = c.tmp[k],
                       !.tmp[k] = {},
                       !.slot = [t \in Slots |->
                          IF c1.slot[t].key = k /\ c1.slot[t].fd = "tmp"
                          THEN [c1.slot[t] EXCEPT !.fd = "final"]
                          ELSE c1.slot[t]]]
  IN Return(IF c.tmp[k] = {} THEN c ELSE c2, s, "set", {}, "none")

\* the tests cleanup makes on one file: the age of the file against
\* maxFileAge, then the entry's own maxAge; a file that does not parse goes
SweepExpired(c, file) ==
  \/ c.now - file.mtime > c.maxFileAge
  \/ file.content = {}
  \/ LET content == The(file.content)
     IN ~Falsy(content.ttl) /\ c.now - content.at > The(content.ttl)

\* cleanup() on the files listed by readdir
RECURSIVE Sweep(_, _)
Sweep(c, files) ==
  IF files = {} THEN c
  ELSE LET k == The(files)
       IN Sweep(IF SweepExpired(c, The(c.final[k])) THEN Unlink(c, k) ELSE c,
                files \ {k})

CleanupOp(c) == Sweep(c, {k \in Keys : c.final[k] # {}})

\* the process ends and a new one starts on the same cache directory; the
\* bytes a dead process left in a temporary file are never read, every
\* set() truncates the file before it renames it
CrashOp(c) ==
  [NewCache(c.callers, c.keys, c.maxMemoryItems, c.maxFileAge) EXCEPT
     !.now = c.now,
     !.final = c.final,
     !.tmp = [k \in Keys |->
                IF c.tmp[k] = {} THEN {} ELSE {[content |-> {}, mtime |-> 0]}]]

(***************************************************************************)
(* Actions of the Cache.  A call takes the free slot of least number.      *)
(***************************************************************************)
FreeSlot(s) ==
  /\ s <= ch.callers
  /\ ch.slot[s].pc = "idle"
  /\ \A t \in 1..(s - 1) : ch.slot[t].pc # "idle"

CacheGet ==
  /\ \E s \in Slots, k \in ch.keys, maxAge \in MaxAges :
       /\ FreeSlot(s)
       /\ ch' = Forget(GetOp(CacheBegin(ch), s, k, maxAge))
  /\ UNCHANGED <<tq, rt, pv, md, bt, mv>>

CacheStat ==
  /\ \E s \in Slots :
       /\ ch.slot[s].pc = "stat"
       /\ ch' = Forget(StatOp(CacheBegin(ch), s))
  /\ UNCHANGED <<tq, rt, pv, md, bt, mv>>

CacheRead ==
  /\ \E s \in Slots :
       /\ ch.slot[s].pc = "read"
       /\ ch' = Forget(ReadOp(CacheBegin(ch), s))
  /\ UNCHANGED <<tq, rt, pv, md, bt, mv>>

CacheUnlink ==
  /\ \E s \in Slots :
       /\ ch.slot[s].pc = "unlink"
       /\ ch' = Forget(UnlinkOp(CacheBegin(ch), s))
  /\ UNCHANGED <<tq, rt, pv, md, bt, mv>>

CacheSet ==
  /\ \E s \in Slots, k \in ch.keys, maxAge \in MaxAges :
       /\ FreeSlot(s)
       /\ ch' = Forget(SetOp(CacheBegin(ch), s, k, maxAge))
  /\ UNCHANGED <<tq, rt, pv, md, bt, mv>>

CacheOpen ==
  /\ \E s \in Slots :
       /\ ch.slot[s].pc = "open"
       /\ ch' = Forget(OpenOp(CacheBegin(ch), s))
  /\ UNCHANGED <<tq, rt, pv, md, bt, mv>>

CacheWrite ==
  /\ \E s \in Slots, longer \in BOOLEAN :
       /\ ch.slot[s].pc = "write"
       /\ ch' = Forget(WriteOp(CacheBegin(ch), s, longer))
  /\ UNCHANGED <<tq, rt, pv, md, bt, mv>>

CacheRename ==
  /\ \E s \in Slots :
       /\ ch.slot[s].pc = "rename"
       /\ ch' = Forget(RenameOp(CacheBegin(ch), s))
  /\ UNCHANGED <<tq, rt, pv, md, bt, mv>>

\* set(key, data, {maxAge}) with a max-age larger than the configured one
CacheSetLong ==
  /\ \E s \in Slots, k \in ch.keys :
       /\ FreeSlot(s)
       /\ ch' = Forget(SetOp(CacheBegin(ch), s, k, {ch.maxFileAge + 1}))
  /\ UNCHANGED <<tq, rt, pv, md, bt, mv>>

CacheCleanup ==
  /\ ch' = Forget(CleanupOp(CacheBegin(ch)))
  /\ UNCHANGED <<tq, rt, pv, md, bt, mv>>

CacheCrash ==
  /\ ch' = CrashOp(ch)
  /\ UNCHANGED <<tq, rt, pv, md, bt, mv>>

CacheTick ==
  /\ ch.now < MaxNow
  /\ ch' = [CacheBegin(ch) EXCEPT !.now = @ + 1]
  /\ UNCHANGED <<tq, rt, pv, md, bt, mv>>

(***************************************************************************)
(* Organizer.processVideo on one video file.  The file system is the set   *)
(* of video file names in the source directory and in the destination      *)
(* directory of the item, and the artifacts of the destination.  A file    *)
(* name is the sequence of the counters appended to the original name:     *)
(* <<>> is `name.ext`, <<1>> is `name (1).ext`, <<1, 1>> is                *)
(* `name (1) (1).ext`.  The retry loops of the retryable steps are counted *)
(* in `attempt`.                                                           *)
(***************************************************************************)
OrigName == <<>>

NoError == [step |-> "none", kind |-> "none"]

\* `faults`: whether readdir and fs.rm of the compensation can fail;
\* `error` is the error of the failed step, `cleanupError` the error caught
\* inside the compensation, `message` the error of the returned result
NewVideo(sameDevice, faults, dstExists, dst) ==
  [sameDevice |-> sameDevice, faults |-> faults, src |-> {OrigName},
   dstExists |-> dstExists, dst |-> dst, pre |-> dst,
   nfo |-> FALSE, fanart |-> FALSE, poster |-> FALSE,
   pc |-> "metadata", attempt |-> 0, error |-> NoError,
   cleanupError |-> "none", message |-> NoError, result |-> "none"]

\* the outer catch: `return { success: false, ..., error: error.message }`
ReturnFailure(p, error) ==
  [p EXCEPT !.pc = "returned", !.result = "failure", !.message = error,
            !.attempt = 0]

\* an error thrown outside the inner try reaches the outer catch
ThrowOuter(p, step) ==
  LET error == [step |-> step, kind |-> "thrown"]
  IN ReturnFailure([p EXCEPT !.error = error], error)

\* an error reaches the inner catch
Throw(p, step, kind) ==
  [p EXCEPT !.pc = "rollback", !.attempt = 0,
            !.error = [step |-> step, kind |-> kind]]

\* retryOperation around a step whose attempt has failed: the next attempt,
\* or the error raised after maxRetries attempts
Retry(p, step) ==
  IF p.attempt < PipelineMaxRetries - 1
  THEN [p EXCEPT !.attempt = @ + 1]
  ELSE Throw(p, step, "exhausted")

\* mutant of MetadataOp: the failure is handled by the inner catch
MetadataOpCompensates(p, hit, ok) ==
  IF hit \/ ok THEN [p EXCEPT !.pc = "mkdir"]
  ELSE Throw(p, "metadata", "thrown")

\* cache.get, and on a miss getVideoInfo and cache.set
MetadataOp(p, hit, ok) ==
  IF hit \/ ok THEN [p EXCEPT !.pc = "mkdir"]
  ELSE ThrowOuter(p, "metadata")

\* fs.mkdir(videoDir, { recursive: true })
MkdirOp(p, ok) ==
  IF ok THEN [p EXCEPT !.pc = "nfo", !.dstExists = TRUE]
  ELSE ThrowOuter(p, "mkdir")

\* one attempt of generateNfoFile
NfoOp(p, ok) ==
  IF ok THEN [p EXCEPT !.pc = "coverCheck", !.attempt = 0, !.nfo = TRUE]
  ELSE Retry(p, "nfo")

\* downloadAndSaveCovers up to the download: the URL and the directory
CoverCheckOp(p, ok) ==
  IF ok THEN [p EXCEPT !.pc = "download"] ELSE Throw(p, "covers", "thrown")

\* one attempt of downloadImage
DownloadOp(p, ok) ==
  IF ok THEN [p EXCEPT !.pc = "saveImages", !.attempt = 0]
  ELSE Retry(p, "download")

\* mutant of SaveImagesOp: an attempt that wrote the fanart only counts as
\* a success
SaveImagesOpFanartOnly(p, reached) ==
  CASE reached = "none" -> Retry(p, "saveImages")
    [] OTHER -> [p EXCEPT !.pc = "move", !.attempt = 0, !.fanart = TRUE,
                          !.poster = (reached = "poster")]

\* one attempt of processAndSaveImages: fanart, split, poster
SaveImagesOp(p, reached) ==
  CASE reached = "none" -> Retry(p, "saveImages")
    [] reached = "fanart" -> Retry([p EXCEPT !.fanart = TRUE], "saveImages")
    [] OTHER -> [p EXCEPT !.pc = "move", !.attempt = 0,
                          !.fanart = TRUE, !.poster = TRUE]

\* the name moveFile gives the file in the target directory (overwrite
\* false): the file's name, or the first free `name (counter).ext`
RECURSIVE Numbered(_, _, _)
Numbered(dir, name, counter) ==
  IF Append(name, counter) \notin dir THEN Append(name, counter)
  ELSE Numbered(dir, name, counter + 1)

\* mutant of TargetName: the target is overwritten
TargetNameOverwrite(dir, name) == name

TargetName(dir, name) == IF name \notin dir THEN name ELSE Numbered(dir, name, 1)

\* fileUtils.moveFile from the source directory into the destination
\* directory (useSafeDelete true); how: "ok", "move_failed" (rename or
\* copyFile failed), "delete_failed" (copied on another device, trash failed)
MoveIn(p, name, how) ==
  LET target == TargetName(p.dst, name)
  IN IF name \notin p.src THEN p
     ELSE CASE how = "ok" ->
                 [p EXCEPT !.dstExists = TRUE, !.dst = @ \cup {target},
                           !.src = @ \ {name}]
            [] how = "delete_failed" ->
                 [p EXCEPT !.dstExists = TRUE, !.dst = @ \cup {target}]
            [] OTHER -> [p EXCEPT !.dstExists = TRUE]

\* `moveResult.success` of MoveIn
MovedIn(p, name, how) == name \in p.src /\ how = "ok"

\* fileUtils.moveFile from the destination directory back into the source
\* directory (useSafeDelete false); the option newName is not read
MoveBack(p, name, how) ==
  LET target == TargetName(p.src, name)
  IN CASE how = "ok" ->
            [p EXCEPT !.src = @ \cup {target}, !.dst = @ \ {name}]
       [] how = "delete_failed" -> [p EXCEPT !.src = @ \cup {target}]
       [] OTHER -> p

\* the ways a moveFile can end on this file system
Hows(p) ==
  IF p.sameDevice THEN {"ok", "move_failed"}
  ELSE {"ok", "move_failed", "delete_failed"}

\* one attempt of moveVideoFile; its success ends processVideo
MoveOp(p, how) ==
  IF MovedIn(p, OrigName, how)
  THEN [MoveIn(p, OrigName, how) EXCEPT !.pc = "returned", !.attempt = 0,
                                        !.result = "success"]
  ELSE Retry(MoveIn(p, OrigName, how), "move")

\* the outcomes of readdir and fs.rm in the compensation
Oks(p) == IF p.faults THEN BOOLEAN ELSE {TRUE}

\* `catch (cleanupError)`: the error is printed, then `throw error`
CleanupFailed(p, call) ==
  ReturnFailure([p EXCEPT !.cleanupError = call], p.error)

\* the inner catch up to fs.rm: readdir, the first video file found in the
\* destination directory is moved back; the result of moveFile is not read
RollbackOp(p, ok, found, how) ==
  IF ~ok THEN CleanupFailed(p, "readdir")
  ELSE [(IF found = {} THEN p ELSE MoveBack(p, The(found), how))
          EXCEPT !.pc = "rm"]

\* mutant of RmOp: the destination directory is left in place
RmOpKeep(p, ok) == ReturnFailure(p, p.error)

\* mutant of RmOp: the error of fs.rm is the one that is thrown
RmOpMasking(p, ok) ==
  IF ~ok
  THEN ReturnFailure([p EXCEPT !.cleanupError = "rm"],
                     [step |-> "cleanup", kind |-> "thrown"])
  ELSE ReturnFailure([p EXCEPT !.dstExists = FALSE, !.dst = {}, !.nfo = FALSE,
                               !.fanart = FALSE, !.poster = FALSE], p.error)

\* fs.rm(videoDir, { recursive: true, force: true }), then `throw error`
RmOp(p, ok) ==
  IF ~ok THEN CleanupFailed(p, "rm")
  ELSE ReturnFailure([p EXCEPT !.dstExists = FALSE, !.dst = {}, !.nfo = FALSE,
                               !.fanart = FALSE, !.poster = FALSE], p.error)

(***************************************************************************)
(* Actions of processVideo.                                                *)
(***************************************************************************)
PvMetadata ==
  /\ pv.pc = "metadata"
  /\ \E hit \in BOOLEAN, ok \in BOOLEAN : pv' = MetadataOp(pv, hit, ok)
  /\ UNCHANGED <<tq, rt, ch, md, bt, mv>>

PvMkdir ==
  /\ pv.pc = "mkdir"
  /\ \E ok \in BOOLEAN : pv' = MkdirOp(pv, ok)
  /\ UNCHANGED <<tq, rt, ch, md, bt, mv>>

PvNfo ==
  /\ pv.pc = "nfo"
  /\ \E ok \in BOOLEAN : pv' = NfoOp(pv, ok)
  /\ UNCHANGED <<tq, rt, ch, md, bt, mv>>

PvCoverCheck ==
  /\ pv.pc = "coverCheck"
  /\ \E ok \in BOOLEAN : pv' = CoverCheckOp(pv, ok)
  /\ UNCHANGED <<tq, rt, ch, md, bt, mv>>

PvDownload ==
  /\ pv.pc = "download"
  /\ \E ok \in BOOLEAN : pv' = DownloadOp(pv, ok)
  /\ UNCHANGED <<tq, rt, ch, md, bt, mv>>

PvSaveImages ==
  /\ pv.pc = "saveImages"
  /\ \E reached \in {"none", "fanart", "poster"} :
       pv' = SaveImagesOp(pv, reached)
  /\ UNCHANGED <<tq, rt, ch, md, bt, mv>>

PvMove ==
  /\ pv.pc = "move"
  /\ \E how \in Hows(pv) : pv' = MoveOp(pv, how)
  /\ UNCHANGED <<tq, rt, ch, md, bt, mv>>

PvRollback ==
  /\ pv.pc = "rollback"
  /\ \E ok \in Oks(pv),
        found \in {f \in SUBSET pv.dst :
                     Cardinality(f) = IF pv.dst = {} THEN 0 ELSE 1},
        how \in Hows(pv) :
       pv' = RollbackOp(pv, ok, found, how)
  /\ UNCHANGED <<tq, rt, ch, md, bt, mv>>

PvRm ==
  /\ pv.pc = "rm"
  /\ \E ok \in Oks(pv) : pv' = RmOp(pv, ok)
  /\ UNCHANGED <<tq, rt, ch, md, bt, mv>>

(***************************************************************************)
(* FileUtils.moveFile (overwrite false) called for files of one base name  *)
(* from different source directories into one target directory, as the     *)
(* tasks of two items of one identifier do.  File m is the source file of  *)
(* call m, file 0 a file the directory held before.  Name 0 is `name.ext`, *)
(* name c is `name (c).ext`; dir[n] is the file at name n ({} when the     *)
(* name is free).  A call's pc: "idle", "exists" (awaiting fileExists),    *)
(* "move" (the name is chosen; stat, then rename or copyFile and trash),   *)
(* "done".                                                                 *)
(***************************************************************************)
Moves == 1..NumMoves

MoveNames == 0..NumMoves

NewMove(sameDevice, pre) ==
  [sameDevice |-> sameDevice,
   dir |-> [n \in MoveNames |-> IF n \in pre THEN {0} ELSE {}],
   src |-> [m \in Moves |-> TRUE],
   call |-> [m \in Moves |-> [pc |-> "idle", target |-> 0, counter |-> 1,
                               success |-> FALSE]]]

\* moveFile up to the first `await this.fileExists(targetPath)`
MoveFileOp(v, m) ==
  [v EXCEPT !.call[m] = [pc |-> "exists", target |-> 0, counter |-> 1,
                         success |-> FALSE]]

\* mutant of FileExistsOp: the name is taken whatever the directory holds
FileExistsOpOverwrite(v, m) == [v EXCEPT !.call[m].pc = "move"]

\* fileExists(targetPath) has answered: the next numbered name is tried,
\* or the loop ends with targetPath chosen
FileExistsOp(v, m) ==
  IF v.dir[v.call[m].target] # {}
  THEN [v EXCEPT !.call[m].target = v.call[m].counter,
                 !.call[m].counter = @ + 1]
  ELSE [v EXCEPT !.call[m].pc = "move"]

\* rename(sourcePath, targetPath), or copyFile and trash on another device:
\* both put the file at targetPath whatever is there
MoveFileEndOp(v, m, how) ==
  LET t == v.call[m].target
      v1 == CASE how = "ok" -> [v EXCEPT !.dir[t] = {m}, !.src[m] = FALSE]
              [] how = "delete_failed" -> [v EXCEPT !.dir[t] = {m}]
              [] OTHER -> v
  IN [v1 EXCEPT !.call[m].pc = "done", !.call[m].success = (how = "ok")]

(***************************************************************************)
(* Actions of moveFile.                                                    *)
(***************************************************************************)
MvCall ==
  /\ \E m \in Moves :
       /\ mv.call[m].pc = "idle"
       /\ mv' = MoveFileOp(mv, m)
  /\ UNCHANGED <<tq, rt, ch, pv, md, bt>>

MvExists ==
  /\ \E m \in Moves :
       /\ mv.call[m].pc = "exists"
       /\ mv' = FileExistsOp(mv, m)
  /\ UNCHANGED <<tq, rt, ch, pv, md, bt>>

MvMove ==
  /\ \E m \in Moves, how \in Hows(mv) :
       /\ mv.call[m].pc = "move"
       /\ mv' = MoveFileEndOp(mv, m, how)
  /\ UNCHANGED <<tq, rt, ch, pv, md, bt>>

(***************************************************************************)
(* The metadata stage of processVideo (organizer.js:146-178) for the runs  *)
(* on one identifier, each run as a task of the queue that has been        *)
(* admitted.  Run r makes its cache calls in slot r.  A run's pc: "idle"   *)
(* (not started), "get" (awaiting cache.get), "scrape" (awaiting           *)
(* getVideoInfo), "set" (awaiting cache.set), "hit" (the metadata came     *)
(* from the cache), "stored" (scraped and cached), "failed" (getVideoInfo  *)
(* threw).  invocations counts the calls of getVideoInfo.                  *)
(***************************************************************************)
VideoCode == 1

NewMetadata == [run |-> [r \in Slots |-> "idle"], invocations |-> 0]

\* mutant of Continue: the provider is asked whatever cache.get returned
ContinueAlwaysScrape(m, ret) ==
  CASE ret.kind = "get" ->
         [m EXCEPT !.run[ret.slot] = "scrape", !.invocations = @ + 1]
    [] ret.kind = "set" -> [m EXCEPT !.run[ret.slot] = "stored"]
    [] OTHER -> m

\* processVideo resumes when its cache call has returned `ret`:
\* `if (!metadata)` after cache.get, line 172 after cache.set
Continue(m, ret) ==
  CASE ret.kind = "get" /\ ret.value = {} ->
         [m EXCEPT !.run[ret.slot] = "scrape", !.invocations = @ + 1]
    [] ret.kind = "get" /\ ret.value # {} -> [m EXCEPT !.run[ret.slot] = "hit"]
    [] ret.kind = "set" -> [m EXCEPT !.run[ret.slot] = "stored"]
    [] OTHER -> m

\* the step of a run: the cache after it, and the run resumed if the call
\* it awaited has returned
MdStep(r, from, c) ==
  /\ md.run[r] = from
  /\ ch' = Forget(c)
  /\ md' = Continue([md EXCEPT !.run[r] = IF from = "idle" THEN "get" ELSE @],
                    c.ret)
  /\ UNCHANGED <<tq, rt, pv, bt, mv>>

\* processVideo is called: `await cache.get(`metadata:${videoCode}`)`
MdGet ==
  \E r \in Slots :
    /\ r <= ch.callers
    /\ ch.slot[r].pc = "idle"
    /\ MdStep(r, "idle", GetOp(CacheBegin(ch), r, VideoCode, {}))

MdStat ==
  \E r \in Slots :
    /\ ch.slot[r].pc = "stat"
    /\ MdStep(r, "get", StatOp(CacheBegin(ch), r))

MdRead ==
  \E r \in Slots :
    /\ ch.slot[r].pc = "read"
    /\ MdStep(r, "get", ReadOp(CacheBegin(ch), r))

\* getVideoInfo settles: `await cache.set(...)`, or the outer catch
MdScraped ==
  \E r \in Slots, ok \in BOOLEAN :
    /\ md.run[r] = "scrape"
    /\ ch' = IF ok THEN Forget(SetOp(CacheBegin(ch), r, VideoCode, {}))
             ELSE CacheBegin(ch)
    /\ md' = [md EXCEPT !.run[r] = IF ok THEN "set" ELSE "failed"]
    /\ UNCHANGED <<tq, rt, pv, bt, mv>>

MdOpen ==
  \E r \in Slots :
    /\ ch.slot[r].pc = "open"
    /\ MdStep(r, "set", OpenOp(CacheBegin(ch), r))

MdWrite ==
  \E r \in Slots, longer \in BOOLEAN :
    /\ ch.slot[r].pc = "write"
    /\ MdStep(r, "set", WriteOp(CacheBegin(ch), r, longer))

MdRename ==
  \E r \in Slots :
    /\ ch.slot[r].pc = "rename"
    /\ MdStep(r, "set", RenameOp(CacheBegin(ch), r))

(***************************************************************************)
(* Organizer.processVideos on the shared taskQueue.  The scanned items are *)
(* numbered in the order of the scan; item i is given to the queue by the  *)
(* i-th add() of processAll and is entry i.  pc: "idle", "awaiting" (in    *)
(* `await taskQueue.processAll(tasks)`), "returned", "rejected".           *)
(* success[i] is the `success` of the result the task of item i returned   *)
(* ({} while it has not returned), completed the items in the order their  *)
(* tasks returned (the order of taskQueue.results), results the array      *)
(* processVideos returned.  The process can be signalled at any time; the  *)
(* other users of the exported queue may stop it, resume it and cancel     *)
(* entries.                                                                *)
(***************************************************************************)
NewBatch ==
  [pc |-> "idle", total |-> 0, success |-> [i \in Ids |-> {}],
   completed |-> <<>>, results |-> <<>>]

\* the result of item i as it stands in an array of results
ResultOf(b, i) == [item |-> i, success |-> The(b.success[i])]

\* mutant of TaskReturned: the error of a failed item is thrown by the task
TaskReturnedOrThrew(s, i, success) == Settled(s, i, success)

\* the task of item i returns the result of processVideo, whatever its
\* `success`: processVideo catches every error of its steps
TaskReturned(s, i, success) == Settled(s, i, TRUE)

\* mutant of AllResults: the results in the order the tasks returned
AllResultsAsCompleted(b) == [k \in 1..Len(b.completed) |-> ResultOf(b, b.completed[k])]

\* the value of Promise.all(promises): the values of the promises in the
\* order of the promises
AllResults(b) == [k \in 1..b.total |-> ResultOf(b, k)]

\* processVideos up to `taskQueue.processAll(tasks)`: n files were scanned
BtCall ==
  /\ ~rt.exited
  /\ bt.pc = "idle"
  /\ Idle
  /\ tq.nextId = 1
  /\ \E n \in 1..MaxTasks :
       /\ tq' = [Begin EXCEPT !.paLeft = n, !.paPriority = 0]
       /\ bt' = [bt EXCEPT !.pc = "awaiting", !.total = n]
  /\ UNCHANGED <<rt, ch, pv, md, mv>>

\* one `this.add(task, priority)` of processAll; a task is an async
\* function, its call does not throw
BtAdd ==
  /\ ~rt.exited
  /\ tq.paLeft > 0
  /\ LET s0 == [Begin EXCEPT !.batch = @ \cup {tq.nextId}, !.paLeft = @ - 1]
     IN tq' = Finish(AddOp(s0, 0, FALSE, FALSE))
  /\ UNCHANGED <<rt, ch, pv, md, bt, mv>>

\* a scheduled process() runs
BtDispatch ==
  /\ ~rt.exited
  /\ Idle
  /\ tq.immediates > 0
  /\ tq' = Finish(Process([Begin EXCEPT !.immediates = @ - 1], FALSE))
  /\ UNCHANGED <<rt, ch, pv, md, bt, mv>>

\* processVideo of item i returns and the task returns its result
BtTaskReturns ==
  /\ ~rt.exited
  /\ Idle
  /\ \E i \in Ids, success \in BOOLEAN :
       /\ tq.task[i] = "running"
       /\ tq' = Finish(TaskReturned(Begin, i, success))
       /\ bt' = [bt EXCEPT !.success[i] = {success},
                           !.completed = Append(@, i)]
  /\ UNCHANGED <<rt, ch, pv, md, mv>>

\* processAll has fulfilled: `taskQueue.clear()`, `return results`
BtReturn ==
  /\ ~rt.exited
  /\ Idle
  /\ bt.pc = "awaiting"
  /\ tq.aggregate = "fulfilled"
  /\ tq' = Finish(ClearOp(Begin))
  /\ bt' = [bt EXCEPT !.pc = "returned", !.results = AllResults(bt)]
  /\ UNCHANGED <<rt, ch, pv, md, mv>>

\* processAll has rejected: the catch of processVideos rethrows
BtThrow ==
  /\ ~rt.exited
  /\ Idle
  /\ bt.pc = "awaiting"
  /\ tq.aggregate = "rejected"
  /\ tq' = Begin
  /\ bt' = [bt EXCEPT !.pc = "rejected"]
  /\ UNCHANGED <<rt, ch, pv, md, mv>>

vars == <<tq, rt, ch, pv, md, bt, mv>>

Init ==
  /\ \E c \in 1..MaxConcurrency : tq = NewTaskQueue(c)
  /\ rt = NewRetry(DefaultOptions)
  /\ ch = NewCache(1, Keys, DefaultMaxMemoryItems, DefaultMaxAge)
  /\ pv = NewVideo(TRUE, FALSE, FALSE, {})
  /\ md = NewMetadata
  /\ bt = NewBatch
  /\ mv = NewMove(TRUE, {})

Next ==
  \/ Add
  \/ ProcessAllCall
  \/ ProcessAllAdd
  \/ Dispatch
  \/ TaskSettle
  \/ Timeout
  \/ Cancel
  \/ Stop
  \/ Resume
  \/ Clear
  \/ SetConcurrency
  \/ Tick

Spec == Init /\ [][Next]_vars

\* the dispatch of the TaskQueue under add, task completion, cancel, enqueue
\* timeout, stop, resume and setConcurrency, the limit set to any number of
\* slots up to the number of entries
DispatchNext ==
  \/ Add
  \/ Dispatch
  \/ TaskSettle
  \/ Timeout
  \/ Cancel
  \/ Stop
  \/ Resume
  \/ SetConcurrencyWide

DispatchSpec == Init /\ [][DispatchNext]_vars

\* retry.js on its own: the calls of one retryable function
RetryInit ==
  /\ tq = NewTaskQueue(1)
  /\ \E o \in Options : rt = NewRetry(o)
  /\ ch = NewCache(1, Keys, DefaultMaxMemoryItems, DefaultMaxAge)
  /\ pv = NewVideo(TRUE, FALSE, FALSE, {})
  /\ md = NewMetadata
  /\ bt = NewBatch
  /\ mv = NewMove(TRUE, {})

RetryNext ==
  \/ RetryCall
  \/ OperationSettles
  \/ DelayElapses
  \/ GlobalAbort

RetrySpec == RetryInit /\ [][RetryNext]_vars

\* the Cache over time: one caller at a time, two keys and a tier of at
\* most one entry, the clock, the sweep and restarts of the process
CacheInit ==
  /\ tq = NewTaskQueue(1)
  /\ rt = NewRetry(DefaultOptions)
  /\ \E n \in 0..(MaxMemoryItems - 1), a \in 1..MaxTtl :
       ch = NewCache(1, 1..(NumKeys - 1), n, a)
  /\ pv = NewVideo(TRUE, FALSE, FALSE, {})
  /\ md = NewMetadata
  /\ bt = NewBatch
  /\ mv = NewMove(TRUE, {})

CacheNext ==
  \/ CacheGet
  \/ CacheStat
  \/ CacheRead
  \/ CacheUnlink
  \/ CacheSet
  \/ CacheOpen
  \/ CacheWrite
  \/ CacheRename
  \/ CacheCleanup
  \/ CacheCrash
  \/ CacheTick

CacheSpec == CacheInit /\ [][CacheNext]_vars

\* the recency of the in-process tier: one caller at a time, every key and
\* every configured size, within one tick of the clock
CacheLruInit ==
  /\ tq = NewTaskQueue(1)
  /\ rt = NewRetry(DefaultOptions)
  /\ \E n \in 0..MaxMemoryItems, a \in 1..MaxTtl : ch = NewCache(1, Keys, n, a)
  /\ pv = NewVideo(TRUE, FALSE, FALSE, {})
  /\ md = NewMetadata
  /\ bt = NewBatch
  /\ mv = NewMove(TRUE, {})

CacheLruNext ==
  \/ CacheGet
  \/ CacheStat
  \/ CacheRead
  \/ CacheSet
  \/ CacheOpen
  \/ CacheWrite
  \/ CacheRename
  \/ CacheCrash

CacheLruSpec == CacheLruInit /\ [][CacheLruNext]_vars

\* concurrent calls on one key
CacheRaceInit ==
  /\ tq = NewTaskQueue(1)
  /\ rt = NewRetry(DefaultOptions)
  /\ \E a \in 1..MaxTtl : ch = NewCache(NumSlots, {1}, 1, a)
  /\ pv = NewVideo(TRUE, FALSE, FALSE, {})
  /\ md = NewMetadata
  /\ bt = NewBatch
  /\ mv = NewMove(TRUE, {})

CacheRaceSpec == CacheRaceInit /\ [][CacheNext]_vars

\* the sweep of the cache directory: one caller, one key, entries stored
\* with no max-age, with one up to the configured one and with a larger one
CacheSweepInit ==
  /\ tq = NewTaskQueue(1)
  /\ rt = NewRetry(DefaultOptions)
  /\ \E a \in 1..MaxTtl : ch = NewCache(1, {1}, 1, a)
  /\ pv = NewVideo(TRUE, FALSE, FALSE, {})
  /\ md = NewMetadata
  /\ bt = NewBatch
  /\ mv = NewMove(TRUE, {})

CacheSweepNext ==
  \/ CacheGet
  \/ CacheStat
  \/ CacheRead
  \/ CacheUnlink
  \/ CacheSet
  \/ CacheSetLong
  \/ CacheOpen
  \/ CacheWrite
  \/ CacheRename
  \/ CacheCleanup
  \/ CacheTick

CacheSweepSpec == CacheSweepInit /\ [][CacheSweepNext]_vars

\* concurrent calls on two keys and a tier of at most one entry, within one
\* tick of the clock
CacheConcurrentInit ==
  /\ tq = NewTaskQueue(1)
  /\ rt = NewRetry(DefaultOptions)
  /\ \E n \in 0..(MaxMemoryItems - 1), a \in 1..MaxTtl :
       ch = NewCache(NumSlots, 1..(NumKeys - 1), n, a)
  /\ pv = NewVideo(TRUE, FALSE, FALSE, {})
  /\ md = NewMetadata
  /\ bt = NewBatch
  /\ mv = NewMove(TRUE, {})

CacheConcurrentNext ==
  \/ CacheGet
  \/ CacheStat
  \/ CacheRead
  \/ CacheSet
  \/ CacheOpen
  \/ CacheWrite
  \/ CacheRename

CacheConcurrentSpec == CacheConcurrentInit /\ [][CacheConcurrentNext]_vars

\* processVideo on one file: the source and the destination on one device
\* or on two, the destination directory absent, empty, or left by an
\* earlier run with a video file of the same name
PipelineInit ==
  /\ tq = NewTaskQueue(1)
  /\ rt = NewRetry(DefaultOptions)
  /\ ch = NewCache(1, Keys, DefaultMaxMemoryItems, DefaultMaxAge)
  /\ \E sameDevice \in BOOLEAN, dstExists \in BOOLEAN, dst \in SUBSET {OrigName} :
       /\ dst # {} => dstExists
       /\ pv = NewVideo(sameDevice, FALSE, dstExists, dst)
  /\ md = NewMetadata
  /\ bt = NewBatch
  /\ mv = NewMove(TRUE, {})

PipelineNext ==
  \/ PvMetadata
  \/ PvMkdir
  \/ PvNfo
  \/ PvCoverCheck
  \/ PvDownload
  \/ PvSaveImages
  \/ PvMove
  \/ PvRollback
  \/ PvRm

PipelineSpec == PipelineInit /\ [][PipelineNext]_vars

\* processVideo on one file when the compensation itself can fail
PipelineFaultInit ==
  /\ tq = NewTaskQueue(1)
  /\ rt = NewRetry(DefaultOptions)
  /\ ch = NewCache(1, Keys, DefaultMaxMemoryItems, DefaultMaxAge)
  /\ \E sameDevice \in BOOLEAN, dstExists \in BOOLEAN, dst \in SUBSET {OrigName} :
       /\ dst # {} => dstExists
       /\ pv = NewVideo(sameDevice, TRUE, dstExists, dst)
  /\ md = NewMetadata
  /\ bt = NewBatch
  /\ mv = NewMove(TRUE, {})

PipelineFaultSpec == PipelineFaultInit /\ [][PipelineNext]_vars

\* moveFile calls into one directory, empty or holding `name.ext`
MoveInit ==
  /\ tq = NewTaskQueue(1)
  /\ rt = NewRetry(DefaultOptions)
  /\ ch = NewCache(1, Keys, DefaultMaxMemoryItems, DefaultMaxAge)
  /\ pv = NewVideo(TRUE, FALSE, FALSE, {})
  /\ md = NewMetadata
  /\ bt = NewBatch
  /\ \E sameDevice \in BOOLEAN, pre \in {{}, {0}} :
       mv = NewMove(sameDevice, pre)

MoveNext ==
  \/ MvCall
  \/ MvExists
  \/ MvMove

MoveSpec == MoveInit /\ [][MoveNext]_vars

\* the runs of processVideo on one identifier, as tasks of the queue that
\* run one after the other or at once, within one tick of the clock
MetadataInit ==
  /\ tq = NewTaskQueue(1)
  /\ rt = NewRetry(DefaultOptions)
  /\ \E n \in 0..MaxMemoryItems, a \in 1..MaxTtl :
       ch = NewCache(NumSlots, {VideoCode}, n, a)
  /\ pv = NewVideo(TRUE, FALSE, FALSE, {})
  /\ md = NewMetadata
  /\ bt = NewBatch
  /\ mv = NewMove(TRUE, {})

MetadataNext ==
  \/ MdGet
  \/ MdStat
  \/ MdRead
  \/ MdScraped
  \/ MdOpen
  \/ MdWrite
  \/ MdRename

MetadataSpec == MetadataInit /\ [][MetadataNext]_vars

\* processVideos on the queue, with the signals of the process and the
\* other users of the queue
BatchInit ==
  /\ \E c \in 1..MaxConcurrency : tq = NewTaskQueue(c)
  /\ rt = NewRetry(DefaultOptions)
  /\ ch = NewCache(1, Keys, DefaultMaxMemoryItems, DefaultMaxAge)
  /\ pv = NewVideo(TRUE, FALSE, FALSE, {})
  /\ md = NewMetadata
  /\ bt = NewBatch
  /\ mv = NewMove(TRUE, {})

BatchNext ==
  \/ BtCall
  \/ BtAdd
  \/ BtDispatch
  \/ BtTaskReturns
  \/ BtReturn
  \/ BtThrow
  \/ ~rt.exited /\ Stop
  \/ ~rt.exited /\ Resume
  \/ ~rt.exited /\ Cancel
  \/ Idle /\ GlobalAbort

BatchSpec == BatchInit /\ [][BatchNext]_vars

(***************************************************************************)
(* Properties of the TaskQueue.                                            *)
(***************************************************************************)
Rejections == {"rej_refused", "rej_timeout", "rej_cancel", "rej_stop", "rej_task"}

\* the pending entries: queued and not cancelled
Live(s) == {j \in Range(s.queue) : ~s.items[j].cancelled}

\* C1 (as claimed): the number of running entries never exceeds the
\* configured concurrency limit.
C1_RunningWithinLimit == tq.running <= tq.concurrency

\* C1 (amended): an entry is admitted only while fewer entries are running
\* than the current limit, and a step that does not lower the limit keeps
\* running <= limit; running exceeds the limit only after setConcurrency has
\* lowered it below the number of entries already running.
C1_AdmittedBelowLimit ==
  [][/\ tq'.admitted.id # 0 => tq.running < tq.concurrency
     /\ (tq.running <= tq.concurrency /\ tq'.concurrency >= tq.concurrency)
          => tq'.running <= tq'.concurrency]_vars

C1_Witness ==
  /\ tq.admitted.id # 0
  /\ tq.running = tq.concurrency
  /\ Live(tq) # {}

\* C2: the entry a dispatch admits has the highest priority among the
\* entries pending at that moment, and among those of its priority it is the
\* one submitted first (ids are handed out in submission order).
C2_AdmitsBestPending ==
  tq.admitted.id # 0 =>
    \A j \in Live(tq) :
      \/ tq.items[j].priority < tq.admitted.priority
      \/ tq.items[j].priority = tq.admitted.priority /\ j > tq.admitted.id

C2_Witness ==
  /\ tq.admitted.id # 0
  /\ \E j \in Live(tq) :
       j < tq.admitted.id /\ tq.items[j].priority < tq.admitted.priority

\* C3: the future of an entry that was admitted is settled by its own task
\* only: pending while the task runs, resolved when it returned, rejected
\* with the task's error when it threw; cancel, stop and the timer never
\* touch it.
C3_StartedSettledByOwnTask ==
  \A i \in Ids :
    /\ tq.task[i] = "running" => tq.future[i] = "pending"
    /\ tq.task[i] = "done" => tq.future[i] = "resolved"
    /\ tq.task[i] = "failed" => tq.future[i] = "rej_task"

C3_Witness ==
  /\ \E i \in Ids : tq.task[i] = "done"
  /\ \E j \in Ids : tq.future[j] = "rej_stop"
  /\ \E k \in Ids : tq.future[k] = "rej_cancel"

\* C4: stop() rejects every pending future and empties the queue; while the
\* queue is stopped every add() is rejected without being enqueued and
\* nothing is admitted; when it is not stopped add() is not refused.
C4_StopRefusesUntilResume ==
  [][/\ tq'.isStopped => tq'.queue = <<>>
     /\ (tq'.isStopped /\ ~tq.isStopped) =>
          \A i \in Range(tq.queue) : tq'.future[i] \in Rejections
     /\ tq.isStopped => tq'.admitted.id = 0 /\ tq'.running <= tq.running
     /\ tq'.nextId > tq.nextId =>
          (tq.isStopped <=> tq'.future[tq.nextId] = "rej_refused")]_vars

C4_Witness ==
  /\ ~tq.isStopped
  /\ \E i \in Ids : tq.future[i] = "rej_stop"
  /\ \E j \in Ids : tq.future[j] = "rej_refused"

\* C5: when the timer of a pending entry fires, its future rejects with the
\* timeout error and its task is never run; an admitted entry has no armed
\* timer and its future is never rejected by the timeout.
C5_TimerFired(i) ==
  /\ tq.items[i].timer = "armed"
  /\ tq'.items[i].timer # "armed"
  /\ tq'.task[i] = "idle"

C5_EnqueueTimeout ==
  /\ [](\A i \in Ids :
          /\ tq.future[i] = "rej_timeout" => tq.task[i] = "idle"
          /\ tq.task[i] # "idle" => tq.items[i].timer # "armed")
  /\ [][\A i \in Ids :
          (C5_TimerFired(i) /\ tq.future[i] = "pending")
            => tq'.future[i] = "rej_timeout"]_vars

C5_Witness ==
  /\ \E i \in Ids : tq.future[i] = "rej_timeout"
  /\ \E j \in Ids : tq.items[j].timer = "cleared" /\ tq.task[j] = "running"

\* C6: a step in which a task fails rejects that task's future and no
\* other: no sibling is rejected, cancelled, dequeued or stopped, and a
\* dispatch is scheduled for the entries still pending, whatever the state
\* of the aggregate promise of processAll.
C6_TaskFails(i) == tq.task[i] # "failed" /\ tq'.task[i] = "failed"

C6_FailureIsolated ==
  [][\A i \in Ids : C6_TaskFails(i) =>
       /\ tq'.future[i] = "rej_task"
       /\ tq'.immediates >= 1
       /\ \A j \in Ids \ {i} :
            /\ tq'.future[j] \in Rejections => tq'.future[j] = tq.future[j]
            /\ j \in Live(tq) => j \in Live(tq')
            /\ tq.task[j] = "running" => tq'.task[j] = "running"]_vars

C6_Witness ==
  /\ tq.aggregate = "rejected"
  /\ tq.aggError \in tq.batch
  /\ tq.task[tq.aggError] = "failed"
  /\ \E j \in tq.batch : tq.task[j] = "running"
  /\ \E k \in tq.batch : k \in Live(tq)

\* C7 (as claimed): the aggregate promise of processAll settles only after
\* every submitted task has settled.
C7_AggregateAfterAll ==
  tq.aggregate \in {"fulfilled", "rejected"} =>
    \A i \in tq.batch : tq.future[i] \in Rejections \cup {"resolved"}

\* C7 (amended): the aggregate fulfils only when every submitted task has
\* fulfilled; it rejects as soon as one future of the batch is rejected,
\* with the first rejection, without waiting for the other tasks.
C7_AggregateFailFast ==
  /\ tq.aggregate = "fulfilled" => \A i \in tq.batch : tq.future[i] = "resolved"
  /\ tq.aggregate = "rejected" =>
       tq.aggError \in tq.batch /\ tq.future[tq.aggError] \in Rejections
  /\ tq.aggregate = "pending" =>
       \A i \in tq.batch : tq.future[i] \notin Rejections
  /\ tq.aggregate = "none" => tq.batch = {} \/ tq.paLeft > 0

C7_Witness ==
  /\ tq.aggregate = "rejected"
  /\ \E j \in tq.batch : tq.future[j] = "pending"

\* C8: every entry add() accepted eventually has its future settled; in the
\* form a finite run refutes: when the queue has no work left that could
\* settle a future (no dispatch scheduled, no task running, no timer armed,
\* no processAll in progress), no accepted future is still pending.
Quiescent ==
  /\ tq.immediates = 0
  /\ tq.paLeft = 0
  /\ \A i \in Ids : tq.task[i] # "running" /\ tq.items[i].timer # "armed"

C8_AcceptedEventuallySettled ==
  Quiescent => \A i \in Ids : tq.future[i] # "pending"

(***************************************************************************)
(* Properties of retryOperation.                                           *)
(***************************************************************************)
\* C9: with no abort signalled, a call whose operation failed on every
\* attempt has invoked it exactly maxRetries times and failed with the
\* error that carries the last attempt's error and attempts = maxRetries.
C9_RetryExhaustion ==
  \A c \in Calls :
    (/\ rt.call[c].pc = "settled"
     /\ rt.call[c].outcome.kind \notin {"value", "invalid"}
     /\ ~rt.isAborting)
    => /\ rt.call[c].outcome.kind = "exhausted"
       /\ rt.call[c].invocations = rt.options.maxRetries
       /\ rt.call[c].outcome.originalError = rt.options.maxRetries
       /\ rt.call[c].outcome.attempts = rt.options.maxRetries

C9_Witness ==
  \E c \in Calls :
    /\ rt.call[c].outcome.kind = "exhausted"
    /\ rt.call[c].invocations >= 3
    /\ ~rt.isAborting

\* C10: the k-th delay slept (after the failed attempt with index k - 1) is
\* min(baseDelay * 2^(k-1), maxDelay); the delays never decrease and stay at
\* maxDelay once they reach it; there are at most maxRetries - 1 of them,
\* exactly that many when the retries are exhausted, so none follows the
\* last attempt.
C10_BackoffDelays ==
  \A c \in Calls :
    LET slept == rt.call[c].slept
        o == rt.options
    IN /\ \A k \in 1..Len(slept) :
            slept[k] = IF o.baseDelay * 2^(k - 1) < o.maxDelay
                       THEN o.baseDelay * 2^(k - 1) ELSE o.maxDelay
       /\ \A k \in 1..(Len(slept) - 1) :
            /\ slept[k] <= slept[k + 1]
            /\ slept[k] = o.maxDelay => slept[k + 1] = o.maxDelay
       /\ slept # <<>> => Len(slept) <= o.maxRetries - 1
       /\ Len(slept) <= rt.call[c].invocations
       /\ rt.call[c].outcome.kind = "exhausted" => Len(slept) = o.maxRetries - 1

C10_Witness ==
  \E c \in Calls :
    /\ rt.call[c].outcome.kind = "exhausted"
    /\ Len(rt.call[c].slept) >= 3
    /\ rt.call[c].slept[1] < rt.call[c].slept[2]
    /\ rt.call[c].slept[2] < rt.call[c].slept[3]
    /\ rt.call[c].slept[3] = rt.options.maxDelay

\* C11: a call made with maxRetries < 1, or with a negative baseDelay or
\* maxDelay, fails at once with the validation error: it never enters an
\* attempt or a backoff, the operation is invoked zero times and no
\* cancellation hook is registered, locally or in the process-wide registry.
C11_BadOptions ==
  rt.options.maxRetries < 1 \/ rt.options.baseDelay < 0 \/ rt.options.maxDelay < 0

C11_InvalidFailsAtOnce ==
  C11_BadOptions =>
    /\ rt.cleanupFunctions = {}
    /\ rt.armed = {}
    /\ \A c \in Calls :
         /\ rt.call[c].pc \in {"idle", "settled"}
         /\ rt.call[c].pc = "settled" => rt.call[c].outcome.kind = "invalid"
         /\ rt.call[c].invocations = 0
         /\ rt.call[c].slept = <<>>
         /\ rt.call[c].local = <<>>

C11_Witness ==
  /\ rt.options.maxRetries >= 1
  /\ rt.options.baseDelay >= 0
  /\ rt.options.maxDelay < 0
  /\ \A c \in Calls : rt.call[c].outcome.kind = "invalid"

\* C12: when the abort flag is set while a call sleeps in a backoff, the
\* wait ends and the call fails with the interruption error: once the flag
\* is set no call is left sleeping, and a call that slept when it was set
\* has settled as interrupted.
C12_AbortInterruptsSleep ==
  rt.isAborting => \A c \in Calls : rt.call[c].pc # "sleep"

(***************************************************************************)
(* Properties of the Cache.                                                *)
(***************************************************************************)
\* C13: the in-process tier never holds more entries than the configured
\* maxMemoryItems, for every configured value from 0 on.
C13_MemoryWithinLimit == Size(ch) <= ch.maxMemoryItems

\* C14: a key evicted on insertion is the least recently touched of the
\* keys held at that moment (touches: a get that hits the in-process tier,
\* a set, a promotion from the durable tier); keys leave the tier on an
\* insertion of a key not held only, one at most; inserting a key that is
\* already held evicts nothing.
C14_EvictsLeastRecentlyTouched ==
  [][/\ ch'.evicted # {} =>
          /\ ch.recency # <<>>
          /\ ch'.evicted = {Head(ch.recency)}
          /\ ch'.inserted # {}
          /\ ch'.inserted \cap Held(ch) = {}
          /\ Held(ch') = (Held(ch) \ ch'.evicted) \cup ch'.inserted
     /\ (ch'.inserted # {} /\ ch'.inserted \subseteq Held(ch)) =>
          ch'.evicted = {} /\ Held(ch') = Held(ch)]_vars

C14_Witness ==
  /\ ch.evicted # {}
  /\ Cardinality(Held(ch)) = 2
  /\ ch.ret.kind = "get"
  /\ ch.ret.from = "file"
  /\ ch.recency[1] > ch.recency[2]

\* the max-age in force for a value: the one given to its set(), else the
\* cache-wide default
C15_EffectiveMaxAge(ttl) == IF ttl = {} THEN ch.maxFileAge ELSE The(ttl)

\* C15: get never returns a value whose age, measured from the set() that
\* stored it, exceeds its effective max-age.
C15_NoStaleValue ==
  (ch.ret.kind = "get" /\ ch.ret.value # {}) =>
    LET value == The(ch.ret.value)
    IN ch.now - value.at <= C15_EffectiveMaxAge(value.ttl)

\* a get of key k by slot s starts in this step
C16_GetStarts(s, k) ==
  /\ ch.slot[s].pc = "idle"
  /\ \/ ch'.slot[s].pc = "stat" /\ ch'.slot[s].key = k
     \/ ch'.ret.kind = "get" /\ ch'.ret.slot = s /\ ch'.ret.key = k

\* C16: an entry of the in-process tier is treated as expired by a get
\* exactly when now - storedAt > ttl if a ttl was given for it (0
\* included), and exactly when now - storedAt > defaultTtl otherwise; at
\* age equal to the max-age the get still returns it.
C16_ExpiredExactlyPastMaxAge ==
  [][\A s \in Slots, k \in Keys :
       (C16_GetStarts(s, k) /\ ch.memoryCache[k] # {}) =>
         LET item == The(ch.memoryCache[k])
             maxAge == IF item.maxAge = {} THEN ch.maxFileAge
                       ELSE The(item.maxAge)
         IN (ch'.ret.from = "memory") <=> ~(ch.now - item.timestamp > maxAge)]_vars

\* the max-age get() applies to the entry read from a file
C17_FileMaxAge(s, content) ==
  LET maxAge == OrElse(The(content).ttl, ch.slot[s].maxAge)
  IN IF Falsy(maxAge) THEN ch.maxFileAge ELSE The(maxAge)

\* C17: a get returns from the in-process tier in its first step, without
\* consulting the durable tier; it goes on to the durable tier only when
\* the in-process tier holds no entry of the key (an expired one is dropped
\* first); a value it returns from the durable tier is the non-expired
\* entry of the file and is held by the in-process tier when it returns;
\* it returns null only after the durable tier was consulted and had no
\* file, no readable entry or an expired one.
C17_LookupOrder ==
  [][\A s \in Slots :
       LET k == ch'.ret.key
           mine == ch'.ret.kind = "get" /\ ch'.ret.slot = s
       IN /\ (mine /\ ch'.ret.from = "memory") =>
               /\ ch.slot[s].pc = "idle"
               /\ ch.memoryCache[k] # {}
               /\ ch'.ret.value = {The(ch.memoryCache[k]).data}
          /\ (ch.slot[s].pc = "idle" /\ ch'.slot[s].pc = "stat") =>
               ch'.memoryCache[ch'.slot[s].key] = {}
          /\ (mine /\ ch'.ret.from = "file") =>
               /\ ch.slot[s].pc = "read"
               /\ ch.final[k] # {}
               /\ ch'.ret.value = The(ch.final[k]).content
               /\ ch'.ret.value # {}
               /\ ch.now - ch.slot[s].mtime <= C17_FileMaxAge(s, ch'.ret.value)
               /\ ch'.memoryCache[k] # {}
               /\ ch'.ret.value = {The(ch'.memoryCache[k]).data}
          /\ (mine /\ ch'.ret.value = {}) =>
               /\ ch'.ret.from = "none"
               /\ ch.slot[s].pc \in {"stat", "read", "unlink"}
               /\ ch.slot[s].pc = "stat" => ch.final[k] = {}
               /\ ch.slot[s].pc = "read" =>
                    ch.final[k] = {} \/ The(ch.final[k]).content = {}
          /\ (ch.slot[s].pc = "read" /\ ch'.slot[s].pc = "unlink") =>
               LET content == The(ch.final[ch.slot[s].key]).content
               IN ch.now - ch.slot[s].mtime > C17_FileMaxAge(s, content)]_vars

C17_Witness ==
  /\ ch.ret.kind = "get"
  /\ ch.ret.from = "file"
  /\ ch.now > 0
  /\ ch.evicted # {}
  /\ ch.memoryCache[ch.ret.key] # {}

\* C18: the file at the final path of a key is absent or holds one whole
\* entry written by one set(), at every state, whatever set() calls are in
\* progress or were cut short by the end of the process.
C18_FinalFileComplete ==
  \A k \in Keys : ch.final[k] = {} \/ The(ch.final[k]).content # {}

C20_FailureRestoresSource ==
  (/\ pv.pc = "returned"
   /\ pv.result = "failure"
   /\ pv.error.step \in {"nfo", "covers", "download", "saveImages", "move"})
  => /\ OrigName \in pv.src
     /\ pv.src \subseteq {OrigName}
     /\ ~pv.dstExists

\* C21: when a step has failed and the compensation, readdir or the
\* removal of the directory, itself raised an error, the result returned
\* by processVideo is a failure that carries the error of the step, not
\* the error of the compensation.
C21_OriginalErrorReported ==
  (pv.pc = "returned" /\ pv.cleanupError # "none") =>
    /\ pv.result = "failure"
    /\ pv.message = pv.error
    /\ pv.error.step \in {"nfo", "covers", "download", "saveImages", "move"}

C21_Witness ==
  /\ pv.pc = "returned"
  /\ pv.cleanupError = "rm"
  /\ pv.error.step = "move"
  /\ pv.dstExists

\* C22: for the runs of processVideo on one identifier that all happen
\* within the max-age of the cache, one after the other or as tasks of the
\* queue running at once, the metadata provider is invoked for that
\* identifier at most once in total.
C22_ProviderInvokedOnce == md.invocations <= 1

(***************************************************************************)
(* Properties of processVideos.                                            *)
(***************************************************************************)
\* C23: processVideos returns exactly one result per scanned item; an item
\* that failed gives a result with success = false, its task fulfils its
\* future and it does not reject the batch; the batch rejects only when
\* the queue rejected a submission or a pending entry.
C23_OneResultPerItem ==
  /\ bt.pc = "returned" =>
       /\ Len(bt.results) = bt.total
       /\ \A i \in 1..bt.total :
            /\ bt.success[i] # {}
            /\ Cardinality({k \in 1..Len(bt.results) : bt.results[k].item = i}) = 1
            /\ \A k \in 1..Len(bt.results) :
                 bt.results[k].item = i => bt.results[k].success \in bt.success[i]
  /\ \A i \in Ids : bt.success[i] = {FALSE} => tq.future[i] = "resolved"
  /\ bt.pc = "rejected" =>
       /\ \E i \in tq.batch :
            tq.future[i] \in {"rej_refused", "rej_cancel", "rej_stop"}
       /\ \A i \in tq.batch : tq.future[i] # "rej_task"

C23_Witness ==
  /\ bt.pc = "returned"
  /\ bt.total = MaxTasks
  /\ bt.success[1] = {FALSE}
  /\ bt.success[2] = {TRUE}
  /\ bt.completed[1] = 1

\* C24 (as claimed): the results returned by processVideos are in the order
\* in which the tasks of the items completed.
C24_ResultsInCompletionOrder ==
  bt.pc = "returned" =>
    \A k \in 1..Len(bt.results) : bt.results[k].item = bt.completed[k]

\* C24 (amended): the results returned by processVideos are in the order in
\* which the items were submitted, whatever the order in which their tasks
\* completed.
C24_ResultsInSubmissionOrder ==
  bt.pc = "returned" =>
    \A k \in 1..Len(bt.results) : bt.results[k].item = k

C24_Witness ==
  /\ bt.pc = "returned"
  /\ bt.total > 1
  /\ bt.completed[1] # 1

\* C25: once the abort is signalled the TaskQueue is in its stopped state.
C25_AbortStopsQueue == rt.isAborting => tq.isStopped

(***************************************************************************)
(* Further properties of the TaskQueue.                                    *)
(***************************************************************************)
\* C26: the task of an entry is executed at most once (it starts only
\* from not started, and ends only from running), and an entry whose
\* future was rejected by cancel, stop or the enqueue timeout is not
\* executed afterwards.
C26_ExecutedAtMostOnce ==
  [][\A i \in Ids :
       /\ tq'.task[i] # tq.task[i] =>
            \/ tq.task[i] = "idle"
            \/ tq.task[i] = "running" /\ tq'.task[i] \in {"done", "failed"}
       /\ tq.future[i] \in {"rej_cancel", "rej_stop", "rej_timeout"} =>
            /\ tq.task[i] = "idle"
            /\ tq'.task[i] = "idle"]_vars

C26_Witness ==
  /\ ~tq.isStopped
  /\ \E i \in Ids : /\ tq.future[i] = "rej_timeout"
                     /\ i \notin Range(tq.queue)
  /\ \E j \in Ids : tq.future[j] = "rej_stop"
  /\ \E k \in Ids : tq.task[k] = "done"

\* C27: cancel(predicate) returns the number of entries that were still
\* pending and that this call cancelled, entries already cancelled by
\* their enqueue timeout not counted, and after the call no cancelled
\* entry is left in the queue.
C27_CancelCountsPending ==
  [][tq'.cancelCount # {} =>
       /\ tq'.cancelCount =
            {Cardinality({i \in Range(tq.queue) :
                            /\ tq.future[i] = "pending"
                            /\ tq'.future[i] = "rej_cancel"})}
       /\ \A i \in Range(tq'.queue) : ~tq'.items[i].cancelled]_vars

C29_HooksOnlyWhilePending ==
  /\ rt.cleanupFunctions \subseteq rt.armed
  /\ \A c \in Calls :
       Cardinality({h \in rt.cleanupFunctions : h[1] = c}) <= 1

\* C30: when the abort flag is set every hook registered at that moment is
\* invoked, and has then been invoked exactly once; afterwards no hook is
\* invoked again, and the flag stays set.
C30_HooksRunOnceOnAbort ==
  [][/\ (~rt.isAborting /\ rt'.isAborting) =>
          \A h \in rt.cleanupFunctions : rt.ran[h] = 0 /\ rt'.ran[h] = 1
     /\ rt.isAborting => rt'.isAborting /\ rt'.ran = rt.ran]_vars

C30_Witness ==
  /\ rt.isAborting
  /\ \E c \in Calls :
       /\ rt.call[c].pc = "sleep"
       /\ Len(rt.call[c].local) = 2
       /\ \A h \in Range(rt.call[c].local) : rt.ran[h] = 1
  /\ \E b \in Calls : rt.call[b].pc = "settled" /\ rt.call[b].slept # <<>>

(***************************************************************************)
(* Properties of the sweep of the cache directory.                         *)
(***************************************************************************)
\* the max-age an entry of a file is stored with, else the configured one
C31_OwnMaxAge(c, file) == OrElse(The(file.content).ttl, {c.maxFileAge})

\* C31: Cache.cleanup deletes a file only if its entry is expired under the
\* entry's own effective max-age (the max-age stored with it, else the
\* configured default), by the time it was stored or by the time its file
\* was written; a file that does not parse has no max-age and may go.
C31_SweepDeletesOnlyOwnExpired ==
  [][ch' = Forget(CleanupOp(CacheBegin(ch))) =>
       \A k \in Keys :
         (ch.final[k] # {} /\ ch'.final[k] = {}) =>
           LET file == The(ch.final[k])
           IN \/ file.content = {}
              \/ ch.now - The(file.content).at > The(C31_OwnMaxAge(ch, file))
              \/ ch.now - file.mtime > The(C31_OwnMaxAge(ch, file))]_vars

\* C32: under any interleaving of concurrent Cache.get and Cache.set calls
\* the access-order array lists each key held in the Map exactly once and
\* no key that the Map does not hold.
C32_MapAndOrderAgree ==
  \A k \in Keys :
    Cardinality({i \in 1..Len(ch.accessOrder) : ch.accessOrder[i] = k})
      = IF ch.memoryCache[k] # {} THEN 1 ELSE 0

\* a set() or a promotion evicts a key while another call is in flight
C32_Witness ==
  /\ ch.evicted # {}
  /\ ch.inserted # {}
  /\ \E s \in Slots : ch.slot[s].pc \in {"stat", "read", "write", "rename"}
  /\ ch.accessOrder = <<The(ch.inserted)>>

(***************************************************************************)
(* Properties of processVideo: the order of the steps, the cache and the   *)
(* file system.                                                            *)
(***************************************************************************)
\* the place of a step in the order of the claim; the three steps of
\* downloadAndSaveCovers are the one step "cover images saved"
C33_Rank(pc) ==
  CASE pc = "metadata" -> 1
    [] pc = "mkdir" -> 2
    [] pc = "nfo" -> 3
    [] pc \in {"coverCheck", "download", "saveImages"} -> 4
    [] pc = "move" -> 5
    [] OTHER -> 0

\* C33: the steps of processVideo happen in the order metadata, directory,
\* description file, cover images, relocation: a run goes from a step to
\* the same step or to the next one, the description file is written once
\* the directory exists, the source file is relocated only in the move
\* step and after the description file and both images were written, and
\* success is returned only by a move step that took the source file into
\* the destination directory.
C33_StepsInOrder ==
  [][/\ C33_Rank(pv'.pc) # 0 =>
          C33_Rank(pv'.pc) \in {C33_Rank(pv.pc), C33_Rank(pv.pc) + 1}
     /\ (pv'.nfo /\ ~pv.nfo) => (pv.pc = "nfo" /\ pv.dstExists)
     /\ (pv'.fanart /\ ~pv.fanart) => (pv.pc = "saveImages" /\ pv.nfo)
     /\ (pv'.poster /\ ~pv.poster) => (pv.pc = "saveImages" /\ pv'.fanart)
     /\ (pv.pc \notin {"rollback", "rm"}
            /\ (pv'.src # pv.src \/ pv'.dst # pv.dst)) =>
          (pv.pc = "move" /\ pv.nfo /\ pv.fanart /\ pv.poster)
     /\ (pv'.result = "success" /\ pv.result # "success") =>
          /\ pv.pc = "move"
          /\ OrigName \in pv.src /\ OrigName \notin pv'.src
          /\ pv'.dst # pv.dst
          /\ pv'.nfo /\ pv'.fanart /\ pv'.poster]_vars

\* a run that succeeded: the artifacts are written and the file is moved
C33_Witness ==
  /\ pv.result = "success"
  /\ pv.nfo /\ pv.fanart /\ pv.poster
  /\ OrigName \notin pv.src
  /\ pv.dst # pv.pre

\* the cache holds a record under the identifier: a cache.get of the
\* identifier would return it from the Map, and its file exists
C34_Stored(c) ==
  /\ c.memoryCache[VideoCode] # {}
  /\ ~IsExpired(c, The(c.memoryCache[VideoCode]).timestamp,
                The(c.memoryCache[VideoCode]).maxAge)
  /\ c.final[VideoCode] # {}

\* C34: in processVideo a run whose cache.get returned a record does not
\* invoke getVideoInfo, and only a miss invokes it; a run whose getVideoInfo
\* succeeded goes on to the directory step only with the record stored in
\* the cache under the identifier; a run whose getVideoInfo failed stores
\* nothing and makes no further cache call.
C34_CacheFirstMetadata ==
  [][\A r \in Slots :
       /\ (md'.run[r] = "hit" /\ md.run[r] # "hit") =>
            /\ md'.invocations = md.invocations
            /\ ch'.ret.kind = "get" /\ ch'.ret.slot = r /\ ch'.ret.value # {}
       /\ md.run[r] = "hit" => md'.run[r] = "hit"
       /\ (md'.run[r] = "scrape" /\ md.run[r] # "scrape") =>
            /\ md'.invocations = md.invocations + 1
            /\ ch'.ret.kind = "get" /\ ch'.ret.slot = r /\ ch'.ret.value = {}
       /\ md'.run[r] = "stored" => C34_Stored(ch')
       /\ (md'.run[r] = "failed" /\ md.run[r] # "failed") =>
            /\ ch'.memoryCache = ch.memoryCache
            /\ ch'.final = ch.final /\ ch'.tmp = ch.tmp
       /\ md'.run[r] = "failed" => ch'.slot[r].pc = "idle"]_vars

\* one run scraped and stored the record, the next one found it in the
\* cache
C34_Witness ==
  /\ \E r \in Slots : md.run[r] = "stored"
  /\ \E r \in Slots : md.run[r] = "hit"
  /\ md.invocations = 1
  /\ C34_Stored(ch)

\* C35: when the metadata step of processVideo fails (a cache miss and a
\* failure of getVideoInfo) the run returns at once, with no compensation:
\* success false with the error of the step, the destination directory as
\* it was (not created, and what an earlier run left in it still there),
\* the source file in place and no artifact written.
C35_MetadataFailureLeavesFiles ==
  [][(pv.pc = "metadata" /\ pv'.pc # "mkdir") =>
       /\ pv'.pc = "returned"
       /\ pv'.result = "failure"
       /\ pv'.message = [step |-> "metadata", kind |-> "thrown"]
       /\ pv'.cleanupError = "none"
       /\ pv'.dstExists = pv.dstExists
       /\ pv'.dst = pv.dst /\ pv'.dst = pv.pre
       /\ pv'.src = pv.src /\ pv'.src = {OrigName}
       /\ ~pv'.nfo /\ ~pv'.fanart /\ ~pv'.poster]_vars

\* the metadata step failed on an item whose destination an earlier run
\* had filled
C35_Witness ==
  /\ pv.pc = "returned"
  /\ pv.message.step = "metadata"
  /\ pv.pre # {}
  /\ pv.dst = pv.pre
  /\ pv.dstExists

(***************************************************************************)
(* Properties of moveFile.                                                 *)
(***************************************************************************)
\* C36: moveFile with overwrite false never replaces or destroys a file of
\* the target directory, also when two calls for files of one base name
\* run at once: a name that holds a file keeps that file.
C36_NeverReplacesExisting ==
  [][\A n \in MoveNames : mv.dir[n] # {} => mv'.dir[n] = mv.dir[n]]_vars

(***************************************************************************)
(* Properties of the compensation of processVideo.                         *)
(***************************************************************************)
\* C37: the compensation of a run of processVideo that failed after the
\* directory step never deletes or moves a file that was in the
\* destination directory before the run started: such a file is still in
\* the destination directory while the compensation runs and when the run
\* has returned.
C37_KeepsEarlierFiles ==
  (pv.pc \in {"rollback", "rm", "returned"}) => pv.pre \subseteq pv.dst

(***************************************************************************)
(* Properties of the dispatch of the TaskQueue.                            *)
(***************************************************************************)
\* C38: whenever the queue is not stopped and no dispatch is scheduled or
\* in progress, either no entry that is not cancelled is pending or the
\* number of running entries is at least the concurrency.
C38_NoIdleSlotWithPending ==
  (~tq.isStopped /\ tq.immediates = 0 /\ Idle) =>
    \/ \A i \in Range(tq.queue) : tq.items[i].cancelled
    \/ tq.running >= tq.concurrency

(***************************************************************************)
(* Properties of the attempts and the hooks of retryOperation.             *)
(***************************************************************************)
\* C39: a call of retryOperation invokes the operation at most maxRetries
\* times; it invokes it again, or sleeps, only after the attempt before
\* has failed; and the step in which an attempt succeeds settles the call
\* with a value, with no further invocation or sleep, for good.
C39_AtMostMaxRetriesAttempts ==
  [][\A c \in Calls :
       /\ rt'.call[c].invocations <= rt.options.maxRetries
       /\ (rt'.call[c].invocations # rt.call[c].invocations) =>
            /\ rt'.call[c].invocations = rt.call[c].invocations + 1
            /\ rt'.call[c].pc = "attempt"
            /\ rt.call[c].invocations > 0 =>
                 rt'.call[c].lastError = rt.call[c].invocations
       /\ (rt'.call[c].slept # rt.call[c].slept) =>
            /\ rt.call[c].pc = "attempt"
            /\ rt'.call[c].lastError = rt.call[c].invocations
       /\ (rt'.call[c].outcome.kind = "value"
              /\ rt.call[c].outcome.kind # "value") =>
            /\ rt.call[c].pc = "attempt"
            /\ rt'.call[c].pc = "settled"
            /\ rt'.call[c].invocations = rt.call[c].invocations
            /\ rt'.call[c].slept = rt.call[c].slept
       /\ rt.call[c].pc = "settled" => rt'.call[c] = rt.call[c]]_vars

\* a call that succeeded on its last allowed attempt, after the backoffs
C39_Witness ==
  \E c \in Calls :
    /\ rt.call[c].outcome.kind = "value"
    /\ rt.options.maxRetries >= 3
    /\ rt.call[c].invocations = rt.options.maxRetries
    /\ Len(rt.call[c].slept) = rt.options.maxRetries - 1

\* C40: after a retryOperation call has settled, with a value, by
\* exhaustion or by interruption, none of the hooks it registered is in
\* the process-wide registry, whatever the other calls are doing.
C40_NoHookAfterSettled ==
  \A c \in Calls :
    rt.call[c].pc = "settled" =>
      \A h \in rt.cleanupFunctions : h[1] # c

\* a call has settled after two backoffs while the hook of another call
\* is registered
C40_Witness ==
  \E c \in Calls :
    /\ rt.call[c].pc = "settled"
    /\ Len(rt.call[c].slept) >= 2
    /\ rt.cleanupFunctions # {}
    /\ ~rt.isAborting

====
